---------------------------- MODULE Spec2Model ----------------------------
(***************************************************************************)
(* A model of the serving core of chainstorage, internal/server/handler.go *)
(*                                                                         *)
(* Several state machines share this module:                               *)
(*   Spec       one StreamChainEvents call after the other of one client,  *)
(*              running against an event index that grows, a client that   *)
(*              may cancel and a server that may shut down;                *)
(*   LiveSpec   the same with the fairness of the Go scheduler;            *)
(*   RpcSpec    RPCs passing the interceptor chain and the throttler;      *)
(*   RangeSpec  a range read racing with the chain's watermark;            *)
(*   TxSpec     a lookup by transaction hash racing with reorgs;           *)
(*   FanSpec    the fan-out of the downloads of one batch;                 *)
(*   PureSpec   one application of a function that reads no state;         *)
(*   CursorSpec StreamChainEvents and GetChainEvents calls with the        *)
(*              request they were opened with on record;                   *)
(*   LifecycleSpec the streams of Spec with the hooks of the server called *)
(*              in any order;                                              *)
(*   MetricSpec the streams of Spec for a client with any client id.       *)
(***************************************************************************)
EXTENDS Integers, Sequences, FiniteSets, TLC

(***************************************************************************)
(* Bounds of the model.                                                    *)
(***************************************************************************)
\* largest event id the index may hold
MaxEventId == 3
\* config.Api.StreamingBatchSize
StreamingBatchSize == 2
\* config.Api.StreamingMaxNoEventTime, in clock steps
StreamingMaxNoEventTime == 1
\* config.GetLatestEventTag()
LatestEventTag == 1
\* the largest value of a height: heights are unsigned and wrap after it
MaxHeight == 3
\* config.Api.MaxNumBlocks and config.Api.MaxNumBlockFiles
MaxNumBlocks == 2
MaxNumBlockFiles == 1
\* config.GetLatestBlockTag() and config.GetStableBlockTag()
LatestBlockTag == 1
StableBlockTag == 1
\* the burst of a client's token bucket
Burst == 100
\* calls that ask the throttler between two refills
MaxHistory == 3
\* records the transaction index holds for one hash
MaxTxRecords == 2
\* sentinel errors in one error chain
MaxChainKinds == 2
\* characters of a client id header, the examples aside
MaxHeaderLen == 3
\* largest event id a cursor is made of
MaxSequenceNum == 120
\* blocks of one fan-out, and config.Api.NumWorkers
MaxFanOut == 3
NumWorkers == 2

\* metastorage.EventIdStartValue
EventIdStartValue == 1

\* backoff.Stop, handler.go line 161
streamingBackoffStop == -1

\* consts.FullServiceName, and another registered service (reflection)
FullServiceName == "coinbase.chainstorage.ChainStorage"
ReflectionService == "grpc.reflection.v1alpha.ServerReflection"

(***************************************************************************)
(* Errors.  An error value is the chain xerrors.Is / xerrors.As walk:      *)
(* grpc is the code of a gateway.GrpcError in the chain ("" when there is  *)
(* none), kinds the sentinel errors in the chain, desc the description a   *)
(* status error carries.  Wrapping with %w keeps both.                     *)
(***************************************************************************)
NilErr == [nil |-> TRUE, grpc |-> "", kinds |-> {}, desc |-> ""]

Err(grpc, kinds, desc) == [nil |-> FALSE, grpc |-> grpc, kinds |-> kinds, desc |-> desc]

\* status.Error(code, msg) / status.Errorf(code, ...)
StatusErr(code, desc) == Err(code, {}, desc)

\* xerrors.New(...) sentinel, or an error wrapping it with %w
KindErr(kind) == Err("", {kind}, "")

\* status.Convert(err).Code().String(), handler.go lines 910 and 938
StatusCode(err) ==
    IF err.nil THEN "OK"
    ELSE IF err.grpc # "" THEN err.grpc
    ELSE "Unknown"

MappedCode_AllInternal(err) ==
    IF err.grpc # "" THEN [code |-> err.grpc, desc |-> err.grpc]
    ELSE [code |-> "Internal", desc |-> "internal error"]

MappedCode_NotFoundFirst(err) ==
    IF "ErrItemNotFound" \in err.kinds THEN [code |-> "NotFound", desc |-> "block not found"]
    ELSE IF err.grpc # "" THEN [code |-> err.grpc, desc |-> err.grpc]
    ELSE [code |-> "Internal", desc |-> "internal error"]

\* the else-if chain of mapToGrpcError, handler.go lines 1012-1057
MappedCode(err) ==
    IF err.grpc # "" THEN [code |-> err.grpc, desc |-> err.grpc]
    ELSE IF "ErrItemNotFound" \in err.kinds
        THEN [code |-> "NotFound", desc |-> "block not found"]
    ELSE IF "ErrNoEventHistory" \in err.kinds
        THEN [code |-> "InvalidArgument", desc |-> "no event history available"]
    ELSE IF "ErrInvalidEventId" \in err.kinds
        THEN [code |-> "InvalidArgument", desc |-> "invalid event id"]
    ELSE IF "ErrOutOfRange" \in err.kinds \/ "ErrInvalidHeight" \in err.kinds
        THEN [code |-> "InvalidArgument", desc |-> "invalid height or out of range"]
    ELSE IF "ErrInvalidChain" \in err.kinds
        THEN [code |-> "FailedPrecondition", desc |-> "invalid chain"]
    ELSE IF "ErrRequestCanceled" \in err.kinds
        THEN [code |-> "Canceled", desc |-> "storage request canceled"]
    ELSE IF "ErrInvalidParameters" \in err.kinds
        THEN [code |-> "InvalidArgument", desc |-> "invalid parser input parameters"]
    ELSE IF "parser.ErrNotImplemented" \in err.kinds
        THEN [code |-> "Unimplemented", desc |-> "parser method not implemented"]
    ELSE IF "errNotImplemented" \in err.kinds
        THEN [code |-> "Unimplemented", desc |-> "handler method not implemented"]
    ELSE IF "context.Canceled" \in err.kinds
        THEN [code |-> "Canceled", desc |-> "context canceled"]
    ELSE IF "context.DeadlineExceeded" \in err.kinds
        THEN [code |-> "DeadlineExceeded", desc |-> "context deadline exceeded"]
    ELSE IF "errNoNewEventForTooLong" \in err.kinds \/ "errServerShutDown" \in err.kinds
        THEN [code |-> "Aborted", desc |-> "please retry after a moment"]
    ELSE [code |-> "Internal", desc |-> "internal error"]

mapToGrpcError_AnyService(err, service) ==
    IF err.nil THEN NilErr
    ELSE StatusErr(MappedCode(err).code, MappedCode(err).desc)

\* lines 1059-1062: mapToGrpcError counts the error it maps
EmitsErrorCounter(err, service) == ~err.nil /\ service = FullServiceName

\* mapToGrpcError, handler.go lines 1000-1094: the error handed to the client
mapToGrpcError(err, service) ==
    IF err.nil THEN NilErr
    ELSE IF service # FullServiceName THEN err
    ELSE StatusErr(MappedCode(err).code, MappedCode(err).desc)

(***************************************************************************)
(* Cursors on the wire.  A string is a sequence of characters.             *)
(***************************************************************************)
Digits == <<"0", "1", "2", "3", "4", "5", "6", "7", "8", "9">>

DigitChar(d) == Digits[d + 1]

IsDigit(c) == \E d \in 0..9 : Digits[d + 1] = c

DigitVal(c) == CHOOSE d \in 0..9 : Digits[d + 1] = c

RECURSIVE FormatNat(_)
FormatNat(n) == IF n < 10 THEN <<DigitChar(n)>> ELSE FormatNat(n \div 10) \o <<DigitChar(n % 10)>>

encodeEventIdToSequence_LastDigit(eventId) == <<DigitChar(eventId % 10)>>

\* strconv.FormatInt(eventId, 10), handler.go lines 1096-1098
encodeEventIdToSequence(eventId) ==
    IF eventId < 0 THEN <<"-">> \o FormatNat(0 - eventId) ELSE FormatNat(eventId)

RECURSIVE ParseDigits(_, _)
ParseDigits(s, acc) ==
    IF s = <<>> THEN [ok |-> TRUE, val |-> acc]
    ELSE IF ~IsDigit(Head(s)) THEN [ok |-> FALSE, val |-> 0]
    ELSE ParseDigits(Tail(s), acc * 10 + DigitVal(Head(s)))

\* strconv.ParseInt(sequence, 10, 64), handler.go lines 1100-1102; the strings of
\* the model are too short to leave the 64-bit range
decodeSequenceToEventId(sequence) ==
    IF sequence = <<>> THEN [ok |-> FALSE, val |-> 0]
    ELSE IF Head(sequence) \in {"+", "-"} THEN
        IF Tail(sequence) = <<>> THEN [ok |-> FALSE, val |-> 0]
        ELSE LET r == ParseDigits(Tail(sequence), 0)
             IN  IF ~r.ok THEN r
                 ELSE IF Head(sequence) = "-" THEN [ok |-> TRUE, val |-> 0 - r.val]
                 ELSE r
    ELSE ParseDigits(sequence, 0)

\* strconv.ParseUint(initialPositionInStream, 10, 64), handler.go line 1290
ParseUint(s) ==
    IF s = <<>> THEN [ok |-> FALSE, val |-> 0] ELSE ParseDigits(s, 0)


(***************************************************************************)
(* The event index (metastorage).  The log of one event tag is the set of  *)
(* event ids ingestion has written so far; ingestion only appends, and an  *)
(* id it compacted away stays a gap.  The entry of an id is fixed.         *)
(***************************************************************************)
BLOCK_ADDED == "BLOCK_ADDED"
BLOCK_REMOVED == "BLOCK_REMOVED"

\* +h1 +h2 -h2 +h2 +h3 ...: a reorg at height 2
EventEntry(id) ==
    [eventId      |-> id,
     eventType    |-> IF id = 3 THEN BLOCK_REMOVED ELSE BLOCK_ADDED,
     blockHeight  |-> IF id <= 1 THEN 1 ELSE IF id <= 4 THEN 2 ELSE id - 2,
     blockHash    |-> IF id \in {2, 3} THEN "A" ELSE "B",
     parentHash   |-> "P",
     blockSkipped |-> FALSE,
     tag          |-> 1,
     eventTag     |-> LatestEventTag]

SetMax(S) == CHOOSE x \in S : \A y \in S : y <= x

SetMin(S) == CHOOSE x \in S : \A y \in S : x <= y

RECURSIVE Ascending(_)
Ascending(S) == IF S = {} THEN <<>> ELSE <<SetMin(S)>> \o Ascending(S \ {SetMin(S)})

Prefix(q, n) == IF Len(q) <= n THEN q ELSE SubSeq(q, 1, n)

\* MetaStorage.GetEventsAfterEventId: up to maxEvents entries after eventId, ascending
GetEventsAfterEventId(ids, eventId, maxEvents) ==
    Prefix(Ascending({i \in ids : i > eventId}), maxEvents)

\* MetaStorage.GetMaxEventId
GetMaxEventId(ids) ==
    IF ids = {} THEN [err |-> KindErr("ErrNoEventHistory"), val |-> 0]
    ELSE [err |-> NilErr, val |-> SetMax(ids)]

\* MetaStorage.GetFirstEventIdByBlockHeight
GetFirstEventIdByBlockHeight(ids, height) ==
    LET at == {i \in ids : EventEntry(i).blockHeight = height}
    IN  IF at = {} THEN [err |-> KindErr("ErrItemNotFound"), val |-> 0]
        ELSE [err |-> NilErr, val |-> SetMin(at)]

(***************************************************************************)
(* parseChainEventsRequest, handler.go lines 1256-1307                     *)
(***************************************************************************)
InitialPositionLatest == <<"L", "A", "T", "E", "S", "T">>
InitialPositionEarliest == <<"E", "A", "R", "L", "I", "E", "S", "T">>

\* line 1274: the cursor of a legacy sequence
CursorFromSequence_Before(decodedEventId) == decodedEventId - 1

CursorFromSequence(decodedEventId) == decodedEventId

CursorFromLatest_AfterMax(latestEventId) == latestEventId

\* line 1284
CursorFromLatest(latestEventId) == latestEventId - 1

\* line 1287
CursorFromEarliest == EventIdStartValue - 1

CursorFromHeight_After(eventId) == eventId

\* line 1299
CursorFromHeight(eventId) == eventId - 1

CursorFromSequenceNum_Before(sequenceNum) == sequenceNum - 1

\* line 1303
CursorFromSequenceNum(sequenceNum) == sequenceNum

\* lines 1266-1306: the cursor of a request whose event tag is supported; calls lists
\* the operations of the index the parse made
parseCursor(ids, input) ==
    IF input.sequence # <<>> THEN
        LET d == decodeSequenceToEventId(input.sequence)
        IN  IF ~d.ok
                THEN [err |-> StatusErr("InvalidArgument", "invalid sequence"), val |-> 0,
                      calls |-> <<>>]
                ELSE [err |-> NilErr, val |-> CursorFromSequence(d.val), calls |-> <<>>]
    ELSE IF input.initialPositionInStream # <<>> THEN
        IF input.initialPositionInStream = InitialPositionLatest THEN
            LET m == GetMaxEventId(ids)
            IN  IF ~m.err.nil THEN [err |-> m.err, val |-> 0, calls |-> <<"GetMaxEventId">>]
                ELSE [err |-> NilErr, val |-> CursorFromLatest(m.val),
                      calls |-> <<"GetMaxEventId">>]
        ELSE IF input.initialPositionInStream = InitialPositionEarliest THEN
            [err |-> NilErr, val |-> CursorFromEarliest, calls |-> <<>>]
        ELSE
            LET h == ParseUint(input.initialPositionInStream)
            IN  IF ~h.ok
                    THEN [err |-> StatusErr("InvalidArgument", "invalid initial position in stream"),
                          val |-> 0, calls |-> <<>>]
                ELSE LET f == GetFirstEventIdByBlockHeight(ids, h.val)
                     IN  IF ~f.err.nil
                            THEN [err |-> f.err, val |-> 0,
                                  calls |-> <<"GetFirstEventIdByBlockHeight">>]
                         ELSE [err |-> NilErr, val |-> CursorFromHeight(f.val),
                               calls |-> <<"GetFirstEventIdByBlockHeight">>]
    ELSE [err |-> NilErr, val |-> CursorFromSequenceNum(input.sequenceNum), calls |-> <<>>]

parseChainEventsRequest_AnyTag(ids, input, eventTag) == parseCursor(ids, input)

\* lines 1262-1264 come first
parseChainEventsRequest(ids, input, eventTag) ==
    IF eventTag > LatestEventTag
        THEN [err |-> StatusErr("InvalidArgument", "do not support eventTag"), val |-> 0,
              calls |-> <<>>]
        ELSE parseCursor(ids, input)

\* the requests the client sends
Sequences == {<<>>, <<"2">>, <<"x">>}
Positions == {<<>>, InitialPositionLatest, InitialPositionEarliest, <<"2">>, <<"h">>}
ChainEventsRequests ==
    [sequence : Sequences, initialPositionInStream : Positions, sequenceNum : 0..MaxEventId]
EventTags == {LatestEventTag, LatestEventTag + 1}

(***************************************************************************)
(* The streaming backoff (github.com/cenkalti/backoff)                     *)
(***************************************************************************)
newStreamingBackoff_NoLimit == [MaxElapsedTime |-> 0]

\* newStreamingBackoff, handler.go lines 1188-1199
newStreamingBackoff == [MaxElapsedTime |-> StreamingMaxNoEventTime]

\* ExponentialBackOff.NextBackOff: Stop once MaxElapsedTime has passed since the
\* last Reset, else the next interval (1 stands for any positive duration)
NextBackOff(b, elapsedTime) ==
    IF b.MaxElapsedTime # 0 /\ elapsedTime > b.MaxElapsedTime
        THEN streamingBackoffStop
        ELSE 1

Reset_KeepsStartTime(elapsedTime) == elapsedTime

\* ExponentialBackOff.Reset: the elapsed time is counted from now on
Reset(elapsedTime) == 0

(***************************************************************************)
(* State.                                                                  *)
(***************************************************************************)
VARIABLES
    \* the event index and the server
    eventIds,           \* ids of the events in the index
    streamDone,         \* TRUE once close(s.streamDone) ran
    \* the StreamChainEvents call that is running (its locals)
    pc,                 \* "idle", "poll", "send", "select", "done"; "read" in GetChainEvents
    lastSentEventId,
    events,             \* the part of the polled batch still to send
    elapsedTime,        \* backoff.GetElapsedTime(), capped
    tickReady,          \* tick.C holds a tick
    ctxDone,            \* the client cancelled the call's context
    ret,                \* the error the handler returned
    exit,               \* the return statement it left by
    \* history
    sent,               \* event ids whose Send succeeded, in order
    startCursor,        \* the cursor parseChainEventsRequest returned
    activeAtStop,       \* the call was running when onStop closed streamDone
    resumed,            \* the call was opened with sequenceNum = resumeFrom
    resumeFrom,
    chainStart,         \* the cursor of the first call of a chain of resumed calls
    delivered,          \* ids the client received in the chain
    eventsServed,       \* the increments of events_served of the call, with their tags
    \* the chain and one range read
    watermark,          \* height of the latest block of the index
    rangePc,            \* where the range handler stands
    rangeReq,           \* its request
    endHeight,          \* endHeight of getBlocksFromMetaStorage
    blocks,             \* heights GetBlocksByHeightRange returned
    latestRead,         \* GetLatestBlock returned a block after the fetch
    latest,             \* and its height
    rangeErr,           \* the error the handler returned
    responded,          \* the handler returned a response
    blobCalls,          \* Download and PreSign calls made for the request
    indexReads,         \* the ranges GetBlocksByHeightRange was called with for it
    \* the throttler and one RPC
    featureTransactionIndexing,     \* config.Chain.Feature.TransactionIndexing
    tokens,             \* tokens in each client's bucket
    baseTokens,         \* tokens each bucket held after the last refill
    history,            \* the AllowN calls since the last refill
    callPc,             \* where the RPC stands
    call,               \* the RPC: client id, full method, unary or stream
    gate,               \* what the rate limit interceptor did with it
    invoked,            \* its handler was called
    handlerErr,         \* the error the handler returned
    callErr,            \* the error the client receives
    refilled,           \* the buckets were refilled since the RPC was admitted
    errorCounted,       \* mapToGrpcError counted an error of the RPC
    \* the transaction index and one lookup by transaction hash
    canonical,          \* hash of the canonical block at each height, "" for none
    txRecords,          \* the records the transaction index holds for the hash
    txPc,               \* where getBlocksFromTransactionStorage stands
    txs,                \* the records GetTransaction returned
    canonicalRead,      \* the canonical hashes GetBlocksByHeights read
    results,            \* the blocks the lookup returned
    txErr,              \* the error it returned
    \* one fan-out of downloads
    fanPc,              \* where getBlocksFromBlobStorage stands
    fanBlocks,          \* its input: heights of the blocks to download
    goIndex,            \* i of the loop of group.Go
    slot,               \* state of the function of each position
    result,             \* the result list
    groupErr,           \* the error the group keeps
    groupCtxDone,       \* the context of the group is cancelled
    fanRet,             \* what getBlocksFromBlobStorage returned
    completed,          \* positions in the order their downloads completed
    firstErr,           \* the error of the first download that failed
    lateStarters,       \* positions handed to group.Go after the cancellation
    \* one application of a function that reads no state
    fnName,             \* the function
    fnInput,            \* its arguments
    fnOutput,           \* what it returned
    \* the last call that read the event log, for the claims about where it starts
    opened,             \* its method, cursor fields, event tag and the index it was parsed on
    polled,             \* it called GetEventsAfterEventId
    response,           \* what GetChainEvents returned
    pulls,              \* what GetChainEvents can return for the request of the stream on
                        \* record, on the index it was opened on, for each MaxNumEvents
    \* the process
    closePanic,         \* close(s.streamDone) ran on the closed channel: the server
                        \* panicked
    streamClientID      \* getClientID(ctx) of the stream calls of the client

streamVars ==
    <<eventIds, streamDone, pc, lastSentEventId, events, elapsedTime, tickReady, ctxDone,
      ret, exit, sent, startCursor, activeAtStop, resumed, resumeFrom, chainStart,
      delivered, eventsServed>>

rangeVars ==
    <<watermark, rangePc, rangeReq, endHeight, blocks, latestRead, latest, rangeErr,
      responded, blobCalls, indexReads>>

rpcVars ==
    <<featureTransactionIndexing, tokens, baseTokens, history, callPc, call, gate, invoked,
      handlerErr, callErr, refilled, errorCounted>>

txVars == <<canonical, txRecords, txPc, txs, canonicalRead, results, txErr>>

fanVars ==
    <<fanPc, fanBlocks, goIndex, slot, result, groupErr, groupCtxDone, fanRet, completed,
      firstErr, lateStarters>>

pureVars == <<fnName, fnInput, fnOutput>>

cursorVars == <<opened, polled, response, pulls>>

processVars == <<closePanic, streamClientID>>

vars ==
    <<streamVars, rangeVars, rpcVars, txVars, fanVars, pureVars, cursorVars, processVars>>

\* what the actions of one part leave alone
nonStreamVars ==
    <<rangeVars, rpcVars, txVars, fanVars, pureVars, cursorVars, processVars>>

nonEventVars ==
    <<rangeVars, rpcVars, txVars, fanVars, pureVars, processVars>>

nonRangeVars ==
    <<streamVars, rpcVars, txVars, fanVars, pureVars, cursorVars, processVars>>

nonRpcVars ==
    <<streamVars, rangeVars, txVars, fanVars, pureVars, cursorVars, processVars>>

nonTxVars ==
    <<streamVars, rangeVars, rpcVars, fanVars, pureVars, cursorVars, processVars>>

nonFanVars ==
    <<streamVars, rangeVars, rpcVars, txVars, pureVars, cursorVars, processVars>>

nonPureVars ==
    <<streamVars, rangeVars, rpcVars, txVars, fanVars, cursorVars, processVars>>

Active == pc \in {"poll", "send", "select"}

\* what the client is told: streamErrorInterceptor, handler.go lines 962-965
ClientStatus == mapToGrpcError(ret, FullServiceName)

StreamInit ==
    /\ eventIds = {}
    /\ streamDone = FALSE
    /\ pc = "idle"
    /\ lastSentEventId = 0
    /\ events = <<>>
    /\ elapsedTime = 0
    /\ tickReady = FALSE
    /\ ctxDone = FALSE
    /\ ret = NilErr
    /\ exit = ""
    /\ sent = <<>>
    /\ startCursor = 0
    /\ activeAtStop = FALSE
    /\ resumed = FALSE
    /\ resumeFrom = 0
    /\ chainStart = 0
    /\ delivered = {}
    /\ eventsServed = <<>>

(***************************************************************************)
(* The environment of a stream.                                            *)
(***************************************************************************)
\* ingestion appends an event; it may leave a gap
AppendEvent ==
    /\ \E id \in 1..MaxEventId :
        /\ \A i \in eventIds : i < id
        /\ id <= (IF eventIds = {} THEN 0 ELSE SetMax(eventIds)) + 2
        /\ eventIds' = eventIds \cup {id}
    /\ UNCHANGED <<streamDone, pc, lastSentEventId, events, elapsedTime, tickReady, ctxDone,
                   ret, exit, sent, startCursor, activeAtStop, resumed, resumeFrom,
                   chainStart, delivered, eventsServed>>
    /\ UNCHANGED nonStreamVars

\* onStop, handler.go lines 1388-1393: close(s.streamDone); the close of a channel
\* that is closed already panics
onStop ==
    /\ ~closePanic
    /\ IF streamDone
          THEN /\ closePanic' = TRUE
               /\ UNCHANGED <<streamDone, activeAtStop>>
          ELSE /\ streamDone' = TRUE
               /\ activeAtStop' = Active
               /\ closePanic' = FALSE
    /\ UNCHANGED <<eventIds, pc, lastSentEventId, events, elapsedTime, tickReady, ctxDone,
                   ret, exit, sent, startCursor, resumed, resumeFrom,
                   chainStart, delivered, eventsServed>>
    /\ UNCHANGED <<rangeVars, rpcVars, txVars, fanVars, pureVars, cursorVars,
                   streamClientID>>

\* NewServer, handler.go lines 213-216: onStop is the OnStop hook of the fx lifecycle,
\* which runs the hook once when the application stops
StopOnce ==
    /\ ~streamDone
    /\ onStop

\* the client cancels the call
ClientCancel ==
    /\ Active
    /\ ~ctxDone
    /\ ctxDone' = TRUE
    /\ UNCHANGED <<eventIds, streamDone, pc, lastSentEventId, events, elapsedTime, tickReady,
                   ret, exit, sent, startCursor, activeAtStop, resumed, resumeFrom,
                   chainStart, delivered, eventsServed>>
    /\ UNCHANGED nonStreamVars

\* the ticker of line 1118 fires
TickFire ==
    /\ Active
    /\ ~tickReady
    /\ tickReady' = TRUE
    /\ UNCHANGED <<eventIds, streamDone, pc, lastSentEventId, events, elapsedTime, ctxDone,
                   ret, exit, sent, startCursor, activeAtStop, resumed, resumeFrom,
                   chainStart, delivered, eventsServed>>
    /\ UNCHANGED nonStreamVars

\* the clock the backoff reads advances
TimePasses ==
    /\ Active
    /\ elapsedTime <= StreamingMaxNoEventTime
    /\ elapsedTime' = elapsedTime + 1
    /\ UNCHANGED <<eventIds, streamDone, pc, lastSentEventId, events, tickReady, ctxDone,
                   ret, exit, sent, startCursor, activeAtStop, resumed, resumeFrom,
                   chainStart, delivered, eventsServed>>
    /\ UNCHANGED nonStreamVars

(***************************************************************************)
(* StreamChainEvents, handler.go lines 1104-1186                           *)
(***************************************************************************)
\* a return statement of the handler
Return(err, how) ==
    /\ pc' = "done"
    /\ ret' = err
    /\ exit' = how

\* lines 1104-1121: parse the request, make the ticker and the backoff
Start(parsed) ==
        /\ pc \in {"idle", "done"}
        /\ sent' = <<>>
        /\ eventsServed' = <<>>
        /\ events' = <<>>
        /\ ctxDone' = FALSE
        /\ tickReady' = FALSE
        /\ elapsedTime' = 0
        /\ startCursor' = parsed.val
        /\ lastSentEventId' = parsed.val
        /\ activeAtStop' = FALSE
        /\ IF parsed.err.nil
              THEN /\ pc' = "poll"
                   /\ ret' = NilErr
                   /\ exit' = ""
              ELSE Return(parsed.err, "parse-error")
        /\ UNCHANGED <<eventIds, streamDone>>

\* a client opens a stream with any request
OpenSession ==
    /\ pc \in {"idle", "done"}
    /\ \E parsed \in {parseChainEventsRequest(eventIds, req, eventTag) :
                        req \in ChainEventsRequests, eventTag \in EventTags} :
        /\ Start(parsed)
        /\ resumed' = FALSE
        /\ resumeFrom' = 0
        /\ chainStart' = parsed.val
        /\ delivered' = {}
    /\ UNCHANGED nonStreamVars

\* the client of an ended stream opens a new one with sequenceNum = the last id it received
ResumeSession ==
    /\ pc = "done"
    /\ delivered # {}
    /\ Start(parseChainEventsRequest(eventIds,
                                     [sequence |-> <<>>, initialPositionInStream |-> <<>>,
                                      sequenceNum |-> SetMax(delivered)], LatestEventTag))
    /\ resumed' = TRUE
    /\ resumeFrom' = SetMax(delivered)
    /\ UNCHANGED <<chainStart, delivered>>
    /\ UNCHANGED nonStreamVars

\* line 1123: the cursor the index is asked with
PollCursor_Next(last) == last + 1

PollCursor(last) == last

\* the errors GetEventsAfterEventId can return
PollErrors ==
    {KindErr("storage"), KindErr("ErrNoEventHistory")}
        \cup (IF ctxDone THEN {KindErr("context.Canceled")} ELSE {})

\* line 1134
errNoNewEventForTooLong == KindErr("errNoNewEventForTooLong")

\* lines 1123-1137: one poll of the index, and the backoff
PollIndex ==
    /\ pc = "poll"
    /\ \/ \E e \in PollErrors : Return(e, "poll-error") /\ UNCHANGED <<events, elapsedTime>>
       \/ LET batch == GetEventsAfterEventId(eventIds, PollCursor(lastSentEventId),
                                              StreamingBatchSize)
          IN  IF Len(batch) > 0
                 THEN /\ elapsedTime' = Reset(elapsedTime)
                      /\ events' = batch
                      /\ pc' = "send"
                      /\ UNCHANGED <<ret, exit>>
              ELSE IF NextBackOff(newStreamingBackoff, elapsedTime) = streamingBackoffStop
                 THEN /\ Return(errNoNewEventForTooLong, "idle-timeout")
                      /\ UNCHANGED <<events, elapsedTime>>
              ELSE /\ pc' = "select"
                   /\ UNCHANGED <<events, elapsedTime, ret, exit>>
    /\ UNCHANGED <<eventIds, streamDone, lastSentEventId, tickReady, ctxDone, sent,
                   startCursor, activeAtStop, resumed, resumeFrom, chainStart, delivered,
                   eventsServed>>

Poll ==
    /\ PollIndex
    /\ UNCHANGED nonStreamVars

\* emitEventsMetric, handler.go lines 317-319: one increment of events_served by count,
\* with its tags
emitEventsMetric(eventType, client, eventTag, count) ==
    [event_type |-> eventType, clientID |-> client, event_tag |-> eventTag,
     count |-> count]

ServedMetric_AddedOnly(e, client) ==
    IF e.eventType = BLOCK_ADDED
       THEN <<emitEventsMetric("block_added", client, FormatNat(e.eventTag), 1)>>
       ELSE <<>>

\* lines 1166-1171: the increments made for an event whose Send succeeded
ServedMetric(e, client) ==
    IF e.eventType = BLOCK_ADDED
       THEN <<emitEventsMetric("block_added", client, FormatNat(e.eventTag), 1)>>
    ELSE IF e.eventType = BLOCK_REMOVED
       THEN <<emitEventsMetric("block_removed", client, FormatNat(e.eventTag), 1)>>
    ELSE <<>>

\* the codes stream.Send can fail with
SendErrorCodes == {"Unavailable", "Canceled", "Internal"}

OnSendError_AlwaysError(code) == StatusErr(code, "")

\* lines 1157-1164: what the handler returns when Send failed
OnSendError(code) == IF code = "Unavailable" THEN NilErr ELSE StatusErr(code, "")

CursorOnFailedSend_Advanced(last, eventId) == eventId

\* lines 1157-1164: the handler returns before the assignment of line 1173
CursorOnFailedSend(last, eventId) == last

AdvanceCursor_Stale(last, eventId) == last

\* line 1173
AdvanceCursor(last, eventId) == eventId

\* lines 1139-1174: send the next event of the batch
SendEvent ==
    /\ pc = "send"
    /\ \/ /\ sent' = Append(sent, Head(events))
          /\ eventsServed' = eventsServed \o ServedMetric(EventEntry(Head(events)),
                                                         streamClientID)
          /\ delivered' = delivered \cup {Head(events)}
          /\ lastSentEventId' = AdvanceCursor(lastSentEventId, Head(events))
          /\ events' = Tail(events)
          /\ pc' = IF Tail(events) = <<>> THEN "select" ELSE "send"
          /\ UNCHANGED <<ret, exit>>
       \/ \E code \in SendErrorCodes :
              /\ Return(OnSendError(code),
                        IF code = "Unavailable" THEN "client-gone" ELSE "send-error")
              /\ lastSentEventId' = CursorOnFailedSend(lastSentEventId, Head(events))
              /\ UNCHANGED <<sent, delivered, events, eventsServed>>
    /\ UNCHANGED <<eventIds, streamDone, elapsedTime, tickReady, ctxDone,
                   startCursor, activeAtStop, resumed, resumeFrom, chainStart>>
    /\ UNCHANGED nonStreamVars

\* line 1177: case <-tick.C
SelectTick ==
    /\ pc = "select"
    /\ tickReady
    /\ tickReady' = FALSE
    /\ pc' = "poll"
    /\ UNCHANGED <<eventIds, streamDone, lastSentEventId, events, elapsedTime, ctxDone, ret,
                   exit, sent, startCursor, activeAtStop, resumed, resumeFrom,
                   chainStart, delivered, eventsServed>>
    /\ UNCHANGED nonStreamVars

OnStreamDone_Silent == NilErr

\* line 1179
OnStreamDone == KindErr("errServerShutDown")

\* lines 1178-1179: case <-s.streamDone
SelectStreamDone ==
    /\ pc = "select"
    /\ streamDone
    /\ Return(OnStreamDone, "shutdown")
    /\ UNCHANGED <<eventIds, streamDone, lastSentEventId, events, elapsedTime, tickReady,
                   ctxDone, sent, startCursor, activeAtStop, resumed, resumeFrom,
                   chainStart, delivered, eventsServed>>
    /\ UNCHANGED nonStreamVars

OnCtxDone_Error == KindErr("context.Canceled")

\* line 1183
OnCtxDone == NilErr

\* lines 1180-1183: case <-ctx.Done()
SelectCtxDone ==
    /\ pc = "select"
    /\ ctxDone
    /\ Return(OnCtxDone, "ctx-cancel")
    /\ UNCHANGED <<eventIds, streamDone, lastSentEventId, events, elapsedTime, tickReady,
                   ctxDone, sent, startCursor, activeAtStop, resumed, resumeFrom,
                   chainStart, delivered, eventsServed>>
    /\ UNCHANGED nonStreamVars

StreamNext ==
    \/ AppendEvent
    \/ StopOnce
    \/ ClientCancel
    \/ TickFire
    \/ TimePasses
    \/ OpenSession
    \/ ResumeSession
    \/ Poll
    \/ SendEvent
    \/ SelectTick
    \/ SelectStreamDone
    \/ SelectCtxDone

(***************************************************************************)
(* Where a call starts in the event log: StreamChainEvents and             *)
(* GetChainEvents with the request they were opened with on record.        *)
(***************************************************************************)
NoCall ==
    [rpc |-> "", legacy |-> FALSE, position |-> <<>>, eventTag |-> 0, ids |-> {},
     calls |-> <<>>]

NoResponse == [err |-> NilErr, events |-> <<>>]

NoPulls == <<>>

\* the record of a call: legacy is whether it carries a sequence, which overrides
\* initialPositionInStream (line 1267)
CallRecord(rpc, req, eventTag, ids, parsed) ==
    [rpc      |-> rpc,
     legacy   |-> req.sequence # <<>>,
     position |-> IF req.sequence # <<>> THEN <<>> ELSE req.initialPositionInStream,
     eventTag |-> eventTag,
     ids      |-> ids,
     calls    |-> parsed.calls]

CursorInit ==
    /\ opened = NoCall
    /\ polled = FALSE
    /\ response = NoResponse
    /\ pulls = NoPulls

\* the process after NewServer: streamDone is made open (line 207)
ProcessInit == closePanic = FALSE

\* lines 1202-1204
MaxNumEventsOf_AsGiven(maxNumEvents) == maxNumEvents

MaxNumEventsOf(maxNumEvents) == IF maxNumEvents = 0 THEN 1 ELSE maxNumEvents

\* the states of the index after one more append of ingestion, as in AppendEvent
Appends(ids) ==
    {ids \cup {id} :
        id \in {i \in 1..MaxEventId :
                  /\ \A j \in ids : j < i
                  /\ i <= (IF ids = {} THEN 0 ELSE SetMax(ids)) + 2}}

\* the states the index can be in some appends after it was ids
RECURSIVE GrownFrom(_)
GrownFrom(ids) == {ids} \cup UNION {GrownFrom(next) : next \in Appends(ids)}

\* lines 1221, 1236-1240: the events of a type among those returned
NumEventsOfType(list, type) ==
    Cardinality({i \in 1..Len(list) : EventEntry(list[i]).eventType = type})

\* what GetChainEvents returns with the events it read
Returned(err, list, read) ==
    [err |-> err, events |-> list, polled |-> read,
     numBlockAddedEvents   |-> NumEventsOfType(list, BLOCK_ADDED),
     numBlockRemovedEvents |-> NumEventsOfType(list, BLOCK_REMOVED)]

\* lines 1215-1253: what GetChainEvents can return once the request is parsed, from
\* the index as it is when line 1215 reads it
ReadChainEvents(ids, cursor, maxNumEvents) ==
    {Returned(e, <<>>, TRUE) : e \in {KindErr("storage"), KindErr("ErrNoEventHistory")}}
        \cup {Returned(NilErr,
                        GetEventsAfterEventId(ids, cursor, MaxNumEventsOf(maxNumEvents)),
                        TRUE)}

\* GetChainEvents, lines 1201-1254: what it can return, and whether it read the events.
\* The request is parsed on the index as it is at line 1211 (ids) and the events are
\* read from the index as it is at line 1215 (later), after what ingestion appended
\* meanwhile.
GetChainEvents(ids, later, req, eventTag, maxNumEvents) ==
    LET parsed == parseChainEventsRequest(ids, req, eventTag)
    IN  IF ~parsed.err.nil
           THEN {Returned(parsed.err, <<>>, FALSE)}
           ELSE ReadChainEvents(later, parsed.val, maxNumEvents)

\* lines 1243-1251: the increments of events_served of a call that returned out
GetChainEventsMetrics(out, client, eventTag) ==
    (IF out.numBlockAddedEvents > 0
        THEN <<emitEventsMetric("block_added", client, FormatNat(eventTag),
                                out.numBlockAddedEvents)>>
        ELSE <<>>)
    \o (IF out.numBlockRemovedEvents > 0
           THEN <<emitEventsMetric("block_removed", client, FormatNat(eventTag),
                                   out.numBlockRemovedEvents)>>
           ELSE <<>>)

\* the values of MaxNumEvents a client asks with
MaxNumEventsValues == 0..(StreamingBatchSize + 1)

\* the states the index can be in
IndexStates == SUBSET (1..MaxEventId)

\* the ways a stream can open: on any state of the index, any request, any event tag
StreamOpenings ==
    UNION {{[parsed |-> parseChainEventsRequest(ids, req, eventTag),
             call   |-> CallRecord("StreamChainEvents", req, eventTag, ids,
                                   parseChainEventsRequest(ids, req, eventTag)),
             pulls  |-> [n \in MaxNumEventsValues |->
                            GetChainEvents(ids, ids, req, eventTag, n)]] :
                req \in ChainEventsRequests, eventTag \in EventTags} :
            ids \in IndexStates}

\* a table of the members of a set of calls by the state of the index they are made on
RECURSIVE ByIndexState(_, _)
ByIndexState(calls, states) ==
    IF states = {} THEN <<>>
    ELSE LET ids == CHOOSE x \in states : TRUE
         IN  (ids :> {o \in calls : o.call.ids = ids}) @@ ByIndexState(calls, states \ {ids})

StreamOpeningsOn == ByIndexState(StreamOpenings, IndexStates)

\* StreamChainEvents is called, lines 1104-1121
OpenStreamChainEvents ==
    /\ pc \in {"idle", "done"}
    /\ \E o \in StreamOpeningsOn[eventIds] :
        /\ Start(o.parsed)
        /\ chainStart' = o.parsed.val
        /\ opened' = o.call
        /\ pulls' = o.pulls
    /\ resumed' = FALSE
    /\ resumeFrom' = 0
    /\ delivered' = {}
    /\ polled' = FALSE
    /\ response' = NoResponse
    /\ UNCHANGED nonEventVars

\* line 1123, on record
PollRecorded ==
    /\ PollIndex
    /\ polled' = TRUE
    /\ UNCHANGED <<opened, response, pulls>>
    /\ UNCHANGED nonEventVars

\* the calls of GetChainEvents on the index ids and what the parse of line 1211 gives
UnaryCalls(ids) ==
    {[call   |-> CallRecord("GetChainEvents", req, eventTag, ids,
                            parseChainEventsRequest(ids, req, eventTag)),
      parsed |-> parseChainEventsRequest(ids, req, eventTag)] :
        req \in ChainEventsRequests, eventTag \in EventTags}

\* the table of the calls by the state of the index they are made on
RECURSIVE UnaryCallsByIndexState(_)
UnaryCallsByIndexState(states) ==
    IF states = {} THEN <<>>
    ELSE LET ids == CHOOSE x \in states : TRUE
         IN  (ids :> UnaryCalls(ids)) @@ UnaryCallsByIndexState(states \ {ids})

UnaryCallsOn == UnaryCallsByIndexState(IndexStates)

\* GetChainEvents is called while no stream runs, lines 1201-1214: the request is
\* parsed; the record of the last stream goes.  A request that does not parse is
\* returned at once (line 1213), else the call goes on to read the events.
CallGetChainEvents ==
    /\ pc \in {"idle", "done"}
    /\ \E o \in UnaryCallsOn[eventIds] :
        /\ opened' = o.call
        /\ response' = [err |-> o.parsed.err, events |-> <<>>]
        /\ pc' = IF o.parsed.err.nil THEN "read" ELSE "idle"
        /\ lastSentEventId' = o.parsed.val
    /\ polled' = FALSE
    /\ pulls' = NoPulls
    /\ events' = <<>>
    /\ elapsedTime' = 0
    /\ tickReady' = FALSE
    /\ ctxDone' = FALSE
    /\ ret' = NilErr
    /\ exit' = ""
    /\ sent' = <<>>
    /\ eventsServed' = <<>>
    /\ startCursor' = 0
    /\ activeAtStop' = FALSE
    /\ resumed' = FALSE
    /\ resumeFrom' = 0
    /\ chainStart' = 0
    /\ delivered' = {}
    /\ UNCHANGED <<eventIds, streamDone>>
    /\ UNCHANGED nonEventVars

\* lines 1215-1253: GetChainEvents reads the events after its cursor from the index as
\* it is now, counts them in events_served and returns
ReturnGetChainEvents ==
    /\ pc = "read"
    /\ \E maxNumEvents \in MaxNumEventsValues :
        \E out \in ReadChainEvents(eventIds, lastSentEventId, maxNumEvents) :
            /\ response' = [err |-> out.err, events |-> out.events]
            /\ eventsServed' = GetChainEventsMetrics(out, streamClientID, opened.eventTag)
    /\ polled' = TRUE
    /\ pc' = "idle"
    /\ lastSentEventId' = 0
    /\ UNCHANGED <<eventIds, streamDone, events, elapsedTime, tickReady, ctxDone,
                   ret, exit, sent, startCursor, activeAtStop, resumed, resumeFrom,
                   chainStart, delivered>>
    /\ UNCHANGED <<opened, pulls>>
    /\ UNCHANGED nonEventVars

CursorNext ==
    \/ AppendEvent
    \/ StopOnce
    \/ ClientCancel
    \/ TickFire
    \/ TimePasses
    \/ OpenStreamChainEvents
    \/ CallGetChainEvents
    \/ ReturnGetChainEvents
    \/ PollRecorded
    \/ SendEvent
    \/ SelectTick
    \/ SelectStreamDone
    \/ SelectCtxDone

(***************************************************************************)
(* Range reads: GetRawBlocksByRange, GetNativeBlocksByRange,               *)
(* GetRosettaBlocksByRange and GetBlockFilesByRange.                       *)
(***************************************************************************)
\* unsigned arithmetic on heights is modulo HeightModulus
HeightModulus == MaxHeight + 1

Heights == 0..MaxHeight

RangeMethods ==
    {"GetRawBlocksByRange", "GetNativeBlocksByRange", "GetRosettaBlocksByRange",
     "GetBlockFilesByRange"}

\* the requests a client may send
RangeRequests ==
    [method : RangeMethods, tag : {0, LatestBlockTag, LatestBlockTag + 1},
     startHeight : Heights,
     endHeight : Heights]

\* config.GetEffectiveBlockTag: tag 0 stands for the stable tag
GetEffectiveBlockTag(tag) == IF tag = 0 THEN StableBlockTag ELSE tag

\* validateTag, handler.go lines 732-738
validateTag(tag) ==
    IF tag > LatestBlockTag
       THEN StatusErr("InvalidArgument", "requested tag is unavailable")
       ELSE NilErr

\* validateBlockRange, handler.go lines 740-750
validateBlockRange(startHeight, endHeightArg, maxNumBlocks) ==
    IF startHeight >= endHeightArg
       THEN StatusErr("InvalidArgument",
                      "invalid range: start_height must be less than end_height")
    ELSE IF endHeightArg - startHeight > maxNumBlocks
       THEN StatusErr("InvalidArgument", "block range size exceeded limit")
    ELSE NilErr

\* lines 774-776: endHeight of the request, 0 meaning one block
EffectiveEndHeight(startHeight, endHeightArg) ==
    IF endHeightArg = 0 THEN (startHeight + 1) % HeightModulus ELSE endHeightArg

\* the limit each handler passes, lines 372, 415, 460 and 516
MaxNumBlocksOf(method) ==
    IF method = "GetBlockFilesByRange" THEN MaxNumBlockFiles ELSE MaxNumBlocks

\* lines 770-784: what getBlocksFromMetaStorage does before it reads the index
ValidateRange(req) ==
    LET tag == GetEffectiveBlockTag(req.tag)
        endH == EffectiveEndHeight(req.startHeight, req.endHeight)
        tagErr == validateTag(tag)
    IN  IF ~tagErr.nil THEN tagErr
        ELSE validateBlockRange(req.startHeight, endH, MaxNumBlocksOf(req.method))

\* metaStorage.GetBlocksByHeightRange: the metadata of [startHeight, endHeight) when
\* the chain holds all of it
GetBlocksByHeightRange(top, startHeight, endHeightArg) ==
    IF endHeightArg - 1 > top
       THEN [err |-> KindErr("ErrItemNotFound"), val |-> <<>>]
       ELSE [err |-> NilErr,
             val |-> [i \in 1..(endHeightArg - startHeight) |-> startHeight + i - 1]]

\* the blocks ingestion marked as skipped
SkippedHeights == {2}

ExceedsWatermark_Lenient(endHeightArg, latestHeight) == endHeightArg - 2 > latestHeight

\* line 799
ExceedsWatermark(endHeightArg, latestHeight) == endHeightArg - 1 > latestHeight

\* lines 799-805: the check against the watermark read after the fetch
CheckWatermark(endHeightArg, latestHeight) ==
    IF ExceedsWatermark(endHeightArg, latestHeight)
       THEN StatusErr("FailedPrecondition", "block end height exceeded latest watermark")
       ELSE NilErr

\* newBlockFile, lines 705-730: PreSign calls made for the first k blocks
PreSignCalls(blks, k) == Cardinality({i \in 1..k : blks[i] \notin SkippedHeights})

\* what the client is told: unaryErrorInterceptor, lines 956-959
RangeStatus == mapToGrpcError(rangeErr, FullServiceName)

RangeInit ==
    /\ watermark = 0
    /\ rangePc = "idle"
    /\ rangeReq = [method |-> "GetRawBlocksByRange", tag |-> 0, startHeight |-> 0,
                   endHeight |-> 0]
    /\ endHeight = 0
    /\ blocks = <<>>
    /\ latestRead = FALSE
    /\ latest = 0
    /\ rangeErr = NilErr
    /\ responded = FALSE
    /\ blobCalls = 0
    /\ indexReads = {}

\* ingestion moves the watermark: the chain grows, or a reorg shortens it
WatermarkMoves ==
    /\ \E h \in Heights : h # watermark /\ watermark' = h
    /\ UNCHANGED <<rangePc, rangeReq, endHeight, blocks, latestRead, latest, rangeErr,
                   responded, blobCalls, indexReads>>
    /\ UNCHANGED nonRangeVars

\* a return statement of a range handler
RangeReturn(err) ==
    /\ rangePc' = "done"
    /\ rangeErr' = err

\* lines 769-784: a range request arrives and is validated
RangeRequest ==
    /\ rangePc \in {"idle", "done"}
    /\ \E req \in RangeRequests :
        /\ rangeReq' = req
        /\ endHeight' = EffectiveEndHeight(req.startHeight, req.endHeight)
        /\ IF ValidateRange(req).nil
              THEN rangePc' = "fetch" /\ rangeErr' = NilErr
              ELSE RangeReturn(ValidateRange(req))
    /\ blocks' = <<>>
    /\ latestRead' = FALSE
    /\ latest' = 0
    /\ responded' = FALSE
    /\ blobCalls' = 0
    /\ indexReads' = {}
    /\ UNCHANGED watermark
    /\ UNCHANGED nonRangeVars

\* lines 786-789: the metadata of the range is read
RangeFetch ==
    /\ rangePc = "fetch"
    /\ \/ RangeReturn(KindErr("storage")) /\ UNCHANGED blocks
       \/ LET got == GetBlocksByHeightRange(watermark, rangeReq.startHeight, endHeight)
          IN  IF got.err.nil
                 THEN rangePc' = "reread" /\ blocks' = got.val /\ UNCHANGED rangeErr
                 ELSE RangeReturn(got.err) /\ UNCHANGED blocks
    /\ indexReads' = indexReads \cup {<<rangeReq.startHeight, endHeight>>}
    /\ UNCHANGED <<watermark, rangeReq, endHeight, latestRead, latest, responded, blobCalls>>
    /\ UNCHANGED nonRangeVars

\* lines 793-805: the latest block is read again and the range checked against it
RangeReread ==
    /\ rangePc = "reread"
    /\ \/ RangeReturn(KindErr("storage")) /\ UNCHANGED <<latestRead, latest>>
       \/ /\ latestRead' = TRUE
          /\ latest' = watermark
          /\ IF CheckWatermark(endHeight, watermark).nil
                THEN rangePc' = "blob" /\ UNCHANGED rangeErr
                ELSE RangeReturn(CheckWatermark(endHeight, watermark))
    /\ UNCHANGED <<watermark, rangeReq, endHeight, blocks, responded, blobCalls,
                   indexReads>>
    /\ UNCHANGED nonRangeVars

\* getBlocksFromBlobStorage, lines 817-839, and the parsing loops of the handlers:
\* every block is downloaded; a failed Download or a failed parse fails the call
RangeDownload ==
    /\ rangePc = "blob"
    /\ rangeReq.method # "GetBlockFilesByRange"
    /\ \/ \E k \in 1..Len(blocks) :
              /\ blobCalls' = k
              /\ RangeReturn(KindErr("storage"))
              /\ UNCHANGED responded
       \/ /\ blobCalls' = Len(blocks)
          /\ \/ RangeReturn(NilErr) /\ responded' = TRUE
             \/ /\ rangeReq.method # "GetRawBlocksByRange"
                /\ RangeReturn(KindErr("parser.ErrNotImplemented"))
                /\ UNCHANGED responded
    /\ UNCHANGED <<watermark, rangeReq, endHeight, blocks, latestRead, latest, indexReads>>
    /\ UNCHANGED nonRangeVars

\* GetBlockFilesByRange, lines 377-389: a URL is signed for every block not skipped
RangePreSign ==
    /\ rangePc = "blob"
    /\ rangeReq.method = "GetBlockFilesByRange"
    /\ \/ \E k \in 1..Len(blocks) :
              /\ blocks[k] \notin SkippedHeights
              /\ blobCalls' = PreSignCalls(blocks, k)
              /\ RangeReturn(KindErr("storage"))
              /\ UNCHANGED responded
       \/ /\ blobCalls' = PreSignCalls(blocks, Len(blocks))
          /\ RangeReturn(NilErr)
          /\ responded' = TRUE
    /\ UNCHANGED <<watermark, rangeReq, endHeight, blocks, latestRead, latest, indexReads>>
    /\ UNCHANGED nonRangeVars

RangeNext ==
    \/ WatermarkMoves
    \/ RangeRequest
    \/ RangeFetch
    \/ RangeReread
    \/ RangeDownload
    \/ RangePreSign

(***************************************************************************)
(* Admission control: the interceptor chain of Register, handler.go lines  *)
(* 233-245, with the throttler in front of the handlers.                   *)
(***************************************************************************)
\* rcuByMethod, handler.go lines 184-193
rcuByMethod ==
    [m \in {"GetRawBlock", "GetRawBlocksByRange", "GetNativeBlock",
            "GetNativeBlocksByRange", "GetRosettaBlock", "GetRosettaBlocksByRange",
            "GetNativeTransaction", "GetVerifiedAccountState"} |->
        IF m \in {"GetRawBlocksByRange", "GetNativeBlocksByRange",
                  "GetRosettaBlocksByRange"}
           THEN 50 ELSE 10]

getRCUByMethod_Flat(method) == 1

\* getRCUByMethod, handler.go lines 992-998
getRCUByMethod(method) ==
    IF method \in DOMAIN rcuByMethod THEN rcuByMethod[method] ELSE 1

\* A full method is the sequence of the parts its slashes separate: "/service/method"
\* is <<"", service, method>>.
FullMethod(service, method) == <<"", service, method>>

\* the string of a sequence of parts
RECURSIVE Join(_)
Join(parts) ==
    IF parts = <<>> THEN ""
    ELSE IF Len(parts) = 1 THEN parts[1]
    ELSE parts[1] \o "/" \o Join(Tail(parts))

\* line 175, methodRegex = \/(.+)\/(.+)$ with the slash after part i as its first slash:
\* the slashes j that can be its second, with a character between the two and a
\* character after the second
SecondSlashes(fullMethod, i) ==
    {j \in (i + 1)..(Len(fullMethod) - 1) :
        /\ j > i + 1 \/ fullMethod[i + 1] # ""
        /\ j < Len(fullMethod) - 1 \/ fullMethod[Len(fullMethod)] # ""}

\* getServiceAndMethod, handler.go lines 892-901: the match of methodRegex starts at the
\* first slash that has one and its first group takes as much as it can; without a
\* match the service is empty and the method is the full method (lines 897-899)
getServiceAndMethod(fullMethod) ==
    LET firsts == {i \in 1..(Len(fullMethod) - 1) : SecondSlashes(fullMethod, i) # {}}
    IN  IF firsts = {}
           THEN [service |-> "", method |-> Join(fullMethod)]
           ELSE LET i == SetMin(firsts)
                    j == SetMax(SecondSlashes(fullMethod, i))
                IN  [service |-> Join(SubSeq(fullMethod, i + 1, j)),
                     method  |-> Join(SubSeq(fullMethod, j + 1, Len(fullMethod)))]

\* the clients that call
Clients == {"alice", "unknown"}

\* The server of the gRPC library, which calls the interceptors and the handlers: it
\* drops one leading slash of the full method, takes what follows the last slash as the
\* method and what precedes it as the service, and calls the interceptors with the full
\* method as it came.  A call of a service that is not registered is answered
\* Unimplemented by the library, without the interceptors.
grpcDispatch(fullMethod) ==
    LET parts == IF Len(fullMethod) > 1 /\ fullMethod[1] = ""
                    THEN Tail(fullMethod) ELSE fullMethod
    IN  [service |-> Join(SubSeq(parts, 1, Len(parts) - 1)),
         method  |-> parts[Len(parts)]]

\* the RPCs the clients call and the interceptors see: one unary method of each weight,
\* the stream, an RPC of the reflection service registered on the same server, and the
\* stream called by a full method without the leading slash
UnaryMethods == {"GetRawBlock", "GetRawBlocksByRange", "GetBlockByTransaction"}

StreamMethods == {"StreamChainEvents"}

Rpcs ==
    {[fullMethod |-> FullMethod(FullServiceName, m), stream |-> FALSE] : m \in UnaryMethods}
        \cup {[fullMethod |-> FullMethod(FullServiceName, m), stream |-> TRUE] :
                  m \in StreamMethods}
        \cup {[fullMethod |-> FullMethod(ReflectionService, "ServerReflectionInfo"),
               stream |-> TRUE]}
        \cup {[fullMethod |-> <<FullServiceName, "StreamChainEvents">>, stream |-> TRUE]}

\* Throttler.AllowN on a bucket holding tok tokens: the decision and the tokens left
AllowN(tok, n) ==
    IF tok >= n THEN [ok |-> TRUE, tokens |-> tok - n] ELSE [ok |-> FALSE, tokens |-> tok]

\* lines 973 and 986
errRateLimitExceeded == StatusErr("ResourceExhausted", "rate limit exceeded")

\* unaryRateLimitInterceptor, handler.go lines 967-978, up to the call of the handler:
\* whether AllowN was asked and with which weight, its answer, the tokens left, and
\* whether the handler is called
unaryRateLimitInterceptor(tok, fullMethod) ==
    LET sm == getServiceAndMethod(fullMethod)
        rcu == getRCUByMethod(sm.method)
    IN  IF sm.service = FullServiceName
           THEN [asked |-> TRUE, rcu |-> rcu, allowed |-> AllowN(tok, rcu).ok,
                 tokens |-> AllowN(tok, rcu).tokens, proceed |-> AllowN(tok, rcu).ok]
           ELSE [asked |-> FALSE, rcu |-> 0, allowed |-> FALSE, tokens |-> tok,
                 proceed |-> TRUE]

streamRateLimitInterceptor_Bypass(tok, fullMethod) ==
    LET sm == getServiceAndMethod(fullMethod)
        rcu == getRCUByMethod(sm.method)
    IN  IF sm.service = FullServiceName
           THEN [asked |-> TRUE, rcu |-> rcu, allowed |-> AllowN(tok, rcu).ok,
                 tokens |-> AllowN(tok, rcu).tokens, proceed |-> TRUE]
           ELSE [asked |-> FALSE, rcu |-> 0, allowed |-> FALSE, tokens |-> tok,
                 proceed |-> TRUE]

\* streamRateLimitInterceptor, handler.go lines 980-990
streamRateLimitInterceptor(tok, fullMethod) ==
    LET sm == getServiceAndMethod(fullMethod)
        rcu == getRCUByMethod(sm.method)
    IN  IF sm.service = FullServiceName
           THEN [asked |-> TRUE, rcu |-> rcu, allowed |-> AllowN(tok, rcu).ok,
                 tokens |-> AllowN(tok, rcu).tokens, proceed |-> AllowN(tok, rcu).ok]
           ELSE [asked |-> FALSE, rcu |-> 0, allowed |-> FALSE, tokens |-> tok,
                 proceed |-> TRUE]

\* GetRawBlock, lines 392-410: the errors the handler can return, nil included
GetRawBlock ==
    {NilErr, validateTag(LatestBlockTag + 1), KindErr("ErrItemNotFound"), KindErr("storage")}

\* GetRawBlocksByRange, lines 412-430
GetRawBlocksByRange ==
    {NilErr, validateBlockRange(1, 1, MaxNumBlocks), CheckWatermark(2, 0), KindErr("storage")}

\* One run of a handler: the error it returns, the backends it called, in order, and
\* whether it emitted its served-items metric.
Outcome(err, reads, served) == [err |-> err, reads |-> reads, served |-> served]

\* line 170
errNotImplemented == KindErr("errNotImplemented")

\* getBlocksFromTransactionStorage, lines 658-703, as the handlers below see it
TransactionStorageRuns ==
    {Outcome(validateTag(LatestBlockTag + 1), <<>>, FALSE),
     Outcome(KindErr("storage"), <<"transactionStorage">>, FALSE),
     Outcome(KindErr("storage"), <<"transactionStorage", "metaStorage">>, FALSE)}

\* GetBlockByTransaction, lines 543-570
GetBlockByTransaction(transactionIndexing) ==
    IF ~transactionIndexing
       THEN {Outcome(errNotImplemented, <<>>, FALSE)}
       ELSE TransactionStorageRuns
                \cup {Outcome(NilErr, <<"transactionStorage", "metaStorage">>, TRUE)}

GetNativeTransaction_Ungated(transactionIndexing) ==
    TransactionStorageRuns
        \cup {Outcome(NilErr, <<"transactionStorage", "metaStorage", "blobStorage">>, TRUE)}

\* GetNativeTransaction, lines 572-608; no block is downloaded when every record of the
\* transaction was reorged away
GetNativeTransaction(transactionIndexing) ==
    IF ~transactionIndexing
       THEN {Outcome(errNotImplemented, <<>>, FALSE)}
       ELSE TransactionStorageRuns
                \cup {Outcome(KindErr("storage"),
                              <<"transactionStorage", "metaStorage", "blobStorage">>, FALSE),
                      Outcome(KindErr("parser"),
                              <<"transactionStorage", "metaStorage", "blobStorage">>, FALSE),
                      Outcome(NilErr, <<"transactionStorage", "metaStorage">>, TRUE),
                      Outcome(NilErr,
                              <<"transactionStorage", "metaStorage", "blobStorage">>, TRUE)}

\* GetVerifiedAccountState, lines 610-654
GetVerifiedAccountState(verifiedAccountStateEnabled) ==
    IF ~verifiedAccountStateEnabled
       THEN {Outcome(errNotImplemented, <<>>, FALSE)}
       ELSE {Outcome(validateTag(LatestBlockTag + 1), <<>>, FALSE),
             Outcome(KindErr("ErrItemNotFound"), <<"metaStorage">>, FALSE),
             Outcome(KindErr("storage"), <<"metaStorage", "blobStorage">>, FALSE),
             Outcome(KindErr("parser"), <<"metaStorage", "blobStorage">>, FALSE),
             Outcome(KindErr("client"),
                     <<"metaStorage", "blobStorage", "blockchainClient">>, FALSE),
             \* lines 643-646: parser.ValidateAccountState fails
             Outcome(KindErr("parser"),
                     <<"metaStorage", "blobStorage", "blockchainClient">>, FALSE),
             Outcome(NilErr, <<"metaStorage", "blobStorage", "blockchainClient">>, TRUE)}

\* the handlers behind a feature flag of config.Chain.Feature
GatedMethods == {"GetBlockByTransaction", "GetNativeTransaction", "GetVerifiedAccountState"}

GatedHandler(method, transactionIndexing, verifiedAccountStateEnabled) ==
    IF method = "GetBlockByTransaction" THEN GetBlockByTransaction(transactionIndexing)
    ELSE IF method = "GetNativeTransaction" THEN GetNativeTransaction(transactionIndexing)
    ELSE GetVerifiedAccountState(verifiedAccountStateEnabled)

\* StreamChainEvents, lines 1104-1186
StreamChainEvents ==
    {NilErr, OnStreamDone, errNoNewEventForTooLong, KindErr("ErrNoEventHistory")}

\* what the handler the library dispatches the full method to can return: a handler of
\* the Server, or the handler of the reflection service
HandlerOutcomes(fullMethod, transactionIndexing) ==
    LET to == grpcDispatch(fullMethod)
    IN  IF to.service # FullServiceName THEN {NilErr, StatusErr("Unimplemented", "")}
        ELSE IF to.method = "GetRawBlock" THEN GetRawBlock
        ELSE IF to.method = "GetRawBlocksByRange" THEN GetRawBlocksByRange
        ELSE IF to.method = "GetBlockByTransaction"
            THEN {o.err : o \in GetBlockByTransaction(transactionIndexing)}
        ELSE StreamChainEvents

TokensAfterHandler_Refund(tok, rcu, err) == IF err.nil THEN tok ELSE tok + rcu

\* lines 977 and 989: the interceptor returns what the handler returned and leaves the
\* bucket alone
TokensAfterHandler(tok, rcu, err) == tok

\* the tokens the admitted calls of a client took, over the first k calls of the history
RECURSIVE Charged(_, _, _)
Charged(h, client, k) ==
    IF k = 0 THEN 0
    ELSE Charged(h, client, k - 1)
            + (IF h[k].client = client /\ h[k].allowed THEN h[k].rcu ELSE 0)

RpcInit ==
    /\ tokens = [c \in Clients |-> Burst]
    /\ baseTokens = [c \in Clients |-> Burst]
    /\ history = <<>>
    /\ callPc = "idle"
    /\ call = [client |-> "unknown",
               fullMethod |-> FullMethod(ReflectionService, "ServerReflectionInfo"),
               stream |-> TRUE]
    /\ gate = [asked |-> FALSE, rcu |-> 0, allowed |-> FALSE, tokens |-> Burst,
               proceed |-> FALSE]
    /\ invoked = FALSE
    /\ handlerErr = NilErr
    /\ callErr = NilErr
    /\ refilled = FALSE
    /\ errorCounted = FALSE

\* time passes and the buckets fill up again
Refill ==
    /\ \E c \in Clients : tokens[c] < Burst
    /\ tokens' = [c \in Clients |-> Burst]
    /\ baseTokens' = [c \in Clients |-> Burst]
    /\ history' = <<>>
    /\ refilled' = TRUE
    /\ UNCHANGED <<featureTransactionIndexing, callPc, call, gate, invoked, handlerErr,
                   callErr, errorCounted>>
    /\ UNCHANGED nonRpcVars

\* a request passes the request and error interceptors and reaches the rate limit
\* interceptor, lines 903-990
RpcCall ==
    /\ callPc \in {"idle", "done"}
    /\ Len(history) < MaxHistory
    /\ \E c \in Clients, rpc \in Rpcs :
        LET g == IF rpc.stream
                    THEN streamRateLimitInterceptor(tokens[c], rpc.fullMethod)
                    ELSE unaryRateLimitInterceptor(tokens[c], rpc.fullMethod)
            service == getServiceAndMethod(rpc.fullMethod).service
            method == getServiceAndMethod(rpc.fullMethod).method
        IN  /\ call' = [client |-> c, fullMethod |-> rpc.fullMethod, stream |-> rpc.stream]
            /\ gate' = g
            /\ tokens' = [tokens EXCEPT ![c] = g.tokens]
            /\ history' = IF g.asked
                             THEN Append(history,
                                         [client |-> c, method |-> method, rcu |-> g.rcu,
                                          before |-> tokens[c], allowed |-> g.allowed])
                             ELSE history
            /\ IF g.proceed
                  THEN /\ callPc' = "handler"
                       /\ callErr' = NilErr
                       /\ errorCounted' = FALSE
                  ELSE /\ callPc' = "done"
                       /\ callErr' = mapToGrpcError(errRateLimitExceeded, service)
                       /\ errorCounted' = EmitsErrorCounter(errRateLimitExceeded, service)
    /\ invoked' = FALSE
    /\ handlerErr' = NilErr
    /\ refilled' = FALSE
    /\ UNCHANGED <<featureTransactionIndexing, baseTokens>>
    /\ UNCHANGED nonRpcVars

\* the handler runs and its error goes back through the error interceptor,
\* lines 956-965
RpcHandler ==
    /\ callPc = "handler"
    /\ LET service == getServiceAndMethod(call.fullMethod).service
       IN  \E err \in HandlerOutcomes(call.fullMethod, featureTransactionIndexing) :
               /\ invoked' = TRUE
               /\ handlerErr' = err
               /\ callErr' = mapToGrpcError(err, service)
               /\ errorCounted' = EmitsErrorCounter(err, service)
               /\ tokens' = [tokens EXCEPT
                                ![call.client] = TokensAfterHandler(@, gate.rcu, err)]
    /\ callPc' = "done"
    /\ UNCHANGED <<featureTransactionIndexing, baseTokens, history, call, gate, refilled>>
    /\ UNCHANGED nonRpcVars

RpcNext ==
    \/ Refill
    \/ RpcCall
    \/ RpcHandler

(***************************************************************************)
(* Lookups by transaction hash: getBlocksFromTransactionStorage,           *)
(* handler.go lines 658-703.                                               *)
(***************************************************************************)
\* the heights the records of the hash refer to
TxHeights == {10, 11}

BlockHashes == {"A", "B"}

\* a record of the transaction index: the block that included the transaction
TxRecords == [blockNumber : TxHeights, blockHash : BlockHashes]

\* a nil *api.BlockMetadata
NilBlock == [height |-> 0, hash |-> ""]

\* metaStorage.GetBlocksByHeights: the canonical blocks at the heights asked for
GetBlocksByHeights(canon, blockNums) ==
    IF \E h \in blockNums : canon[h] = ""
       THEN [err |-> KindErr("ErrItemNotFound"), val |-> {}]
       ELSE [err |-> NilErr, val |-> {[height |-> h, hash |-> canon[h]] : h \in blockNums}]

\* lines 670-677: the heights of the records, without duplicates
BlockNums(records) == {records[i].blockNumber : i \in 1..Len(records)}

\* lines 671-685: blockNumberToMetadataMap after the two loops that fill it
BlockNumberToMetadataMap(records, blocksMetadata) ==
    [h \in BlockNums(records) |->
        IF \E b \in blocksMetadata : b.height = h
           THEN CHOOSE b \in blocksMetadata : b.height = h
           ELSE NilBlock]

Reorged_Never(canonicalBlock, tx) == canonicalBlock = NilBlock

\* line 695: the record's block is not the canonical one
Reorged(canonicalBlock, tx) ==
    canonicalBlock = NilBlock \/ canonicalBlock.hash # tx.blockHash

CanonicalBlocksOf_OncePerHeight(records, metadataMap) ==
    LET kept == {h \in DOMAIN metadataMap :
                    \E i \in 1..Len(records) : /\ records[i].blockNumber = h
                                               /\ ~Reorged(metadataMap[h], records[i])}
    IN  [k \in 1..Cardinality(kept) |-> metadataMap[Ascending(kept)[k]]]

\* lines 687-702: the canonical blocks of the records that were not reorged out
RECURSIVE CanonicalBlocksOf(_, _)
CanonicalBlocksOf(records, metadataMap) ==
    IF records = <<>> THEN <<>>
    ELSE LET tx == Head(records)
             canonicalBlock == metadataMap[tx.blockNumber]
         IN  IF Reorged(canonicalBlock, tx)
                THEN CanonicalBlocksOf(Tail(records), metadataMap)
                ELSE <<canonicalBlock>> \o CanonicalBlocksOf(Tail(records), metadataMap)

TxInit ==
    /\ canonical = [h \in TxHeights |-> ""]
    /\ txRecords = <<>>
    /\ txPc = "idle"
    /\ txs = <<>>
    /\ canonicalRead = [h \in TxHeights |-> ""]
    /\ results = <<>>
    /\ txErr = NilErr

\* ingestion indexes an inclusion of the transaction
TxIngest ==
    /\ Len(txRecords) < MaxTxRecords
    /\ \E r \in TxRecords : txRecords' = Append(txRecords, r)
    /\ UNCHANGED <<canonical, txPc, txs, canonicalRead, results, txErr>>
    /\ UNCHANGED nonTxVars

\* the canonical chain changes at a height: a block is added, replaced or removed
CanonicalChanges ==
    /\ \E h \in TxHeights, hash \in BlockHashes \cup {""} :
        /\ canonical[h] # hash
        /\ canonical' = [canonical EXCEPT ![h] = hash]
    /\ UNCHANGED <<txRecords, txPc, txs, canonicalRead, results, txErr>>
    /\ UNCHANGED nonTxVars

\* lines 658-668: the tag is validated and the records of the hash are read
TxRequest ==
    /\ txPc \in {"idle", "done"}
    /\ results' = <<>>
    /\ canonicalRead' = [h \in TxHeights |-> ""]
    /\ \E tag \in {0, LatestBlockTag, LatestBlockTag + 1} :
        IF ~validateTag(GetEffectiveBlockTag(tag)).nil
           THEN /\ txPc' = "done"
                /\ txErr' = validateTag(GetEffectiveBlockTag(tag))
                /\ txs' = <<>>
           ELSE \/ /\ txPc' = "done"
                   /\ txErr' = KindErr("storage")
                   /\ txs' = <<>>
                \/ /\ txRecords = <<>>
                   /\ txPc' = "done"
                   /\ txErr' = KindErr("ErrItemNotFound")
                   /\ txs' = <<>>
                \/ /\ txRecords # <<>>
                   /\ txPc' = "resolve"
                   /\ txErr' = NilErr
                   /\ txs' = txRecords
    /\ UNCHANGED <<canonical, txRecords>>
    /\ UNCHANGED nonTxVars

\* lines 670-702: the canonical blocks at the heights of the records are read and the
\* records filtered against them
TxResolve ==
    /\ txPc = "resolve"
    /\ txPc' = "done"
    /\ canonicalRead' = canonical
    /\ \/ /\ txErr' = KindErr("storage")
          /\ UNCHANGED results
       \/ LET got == GetBlocksByHeights(canonical, BlockNums(txs))
          IN  IF got.err.nil
                 THEN /\ results' = CanonicalBlocksOf(
                                        txs, BlockNumberToMetadataMap(txs, got.val))
                      /\ UNCHANGED txErr
                 ELSE /\ txErr' = got.err
                      /\ UNCHANGED results
       \/ \* an index that leaves out the heights it has no block for
          LET found == {[height |-> h, hash |-> canonical[h]] :
                            h \in {n \in BlockNums(txs) : canonical[n] # ""}}
          IN  /\ results' = CanonicalBlocksOf(txs, BlockNumberToMetadataMap(txs, found))
              /\ UNCHANGED txErr
    /\ UNCHANGED <<canonical, txRecords, txs>>
    /\ UNCHANGED nonTxVars

TxNext ==
    \/ TxIngest
    \/ CanonicalChanges
    \/ TxRequest
    \/ TxResolve

(***************************************************************************)
(* The fan-out of downloads: getBlocksFromBlobStorage, handler.go lines    *)
(* 817-839, on a syncgroup of NumWorkers workers.                          *)
(***************************************************************************)
\* the inputs: the metadata of the heights of a range, in ascending order
FanInputs ==
    {[i \in 1..n |-> startHeight + i - 1] : startHeight \in Heights, n \in 1..MaxFanOut}

\* a nil *api.Block, and the payload blobStorage.Download returns for a block
NilPayload == <<>>

Payload(height) == <<"payload", height>>

\* the error of the download at a position
DownloadError(i) == KindErr("download:" \o ToString(i))

ResultSlot_Completion(i, done) == done + 1

\* line 829: result[i] = output
ResultSlot(i, done) == i

\* errgroup keeps the first error its functions return
RecordError(err, e) == IF err.nil THEN e ELSE err

WaitReturn_Partial(err, payloads) == [err |-> err, val |-> payloads]

\* lines 834-838
WaitReturn(err, payloads) ==
    IF ~err.nil THEN [err |-> err, val |-> <<>>] ELSE [err |-> NilErr, val |-> payloads]

SlotsIn(state) == {i \in 1..Len(fanBlocks) : slot[i] = state}

InFlight == SlotsIn("running") \cup SlotsIn("doomed")

FanInit ==
    /\ fanPc = "idle"
    /\ fanBlocks = <<>>
    /\ goIndex = 1
    /\ slot = <<>>
    /\ result = <<>>
    /\ groupErr = NilErr
    /\ groupCtxDone = FALSE
    /\ fanRet = [err |-> NilErr, val |-> <<>>]
    /\ completed = <<>>
    /\ firstErr = NilErr
    /\ lateStarters = {}

\* lines 817-819: the result list and the group are made
FanStart ==
    /\ fanPc \in {"idle", "done"}
    /\ \E input \in FanInputs :
        /\ fanBlocks' = input
        /\ slot' = [i \in 1..Len(input) |-> "idle"]
        /\ result' = [i \in 1..Len(input) |-> NilPayload]
    /\ fanPc' = "loop"
    /\ goIndex' = 1
    /\ groupErr' = NilErr
    /\ groupCtxDone' = FALSE
    /\ fanRet' = [err |-> NilErr, val |-> <<>>]
    /\ completed' = <<>>
    /\ firstErr' = NilErr
    /\ lateStarters' = {}
    /\ UNCHANGED nonFanVars

\* lines 820-832: group.Go hands the next position to a worker; it waits for a free
\* worker, and once the group's context is cancelled the function gets the cancelled
\* context and can only fail with it
FanGo ==
    /\ fanPc = "loop"
    /\ IF groupCtxDone
          THEN slot' = [slot EXCEPT ![goIndex] = "doomed"]
          ELSE /\ Cardinality(InFlight) < NumWorkers
               /\ slot' = [slot EXCEPT ![goIndex] = "running"]
    /\ goIndex' = goIndex + 1
    /\ fanPc' = IF goIndex = Len(fanBlocks) THEN "wait" ELSE "loop"
    /\ lateStarters' = IF groupCtxDone THEN lateStarters \cup {goIndex} ELSE lateStarters
    /\ UNCHANGED <<fanBlocks, result, groupErr, groupCtxDone, fanRet, completed, firstErr>>
    /\ UNCHANGED nonFanVars

\* lines 823-830: a download that started with a live context completes
FanDownloaded ==
    /\ \E i \in SlotsIn("running") :
        /\ slot' = [slot EXCEPT ![i] = "ok"]
        /\ result' = [result EXCEPT ![ResultSlot(i, Len(completed))] = Payload(fanBlocks[i])]
        /\ completed' = Append(completed, i)
    /\ UNCHANGED <<fanPc, fanBlocks, goIndex, groupErr, groupCtxDone, fanRet, firstErr,
                   lateStarters>>
    /\ UNCHANGED nonFanVars

\* lines 824-827: a download fails, of itself or because its context is cancelled;
\* the group keeps the first error and cancels the context of the others
FanDownloadFailed ==
    /\ \E i \in InFlight :
        \E e \in (IF slot[i] = "running" THEN {DownloadError(i)} ELSE {})
                    \cup (IF groupCtxDone THEN {KindErr("context.Canceled")} ELSE {}) :
            /\ slot' = [slot EXCEPT ![i] = "failed"]
            /\ groupErr' = RecordError(groupErr, e)
            /\ firstErr' = IF SlotsIn("failed") = {} THEN e ELSE firstErr
    /\ groupCtxDone' = TRUE
    /\ UNCHANGED <<fanPc, fanBlocks, goIndex, result, fanRet, completed, lateStarters>>
    /\ UNCHANGED nonFanVars

\* the caller's context, from which the group's is derived, is cancelled
FanCallerCancels ==
    /\ fanPc \in {"loop", "wait"}
    /\ ~groupCtxDone
    /\ groupCtxDone' = TRUE
    /\ UNCHANGED <<fanPc, fanBlocks, goIndex, slot, result, groupErr, fanRet, completed,
                   firstErr, lateStarters>>
    /\ UNCHANGED nonFanVars

\* lines 834-838: group.Wait returns when every function has returned
FanWait ==
    /\ fanPc = "wait"
    /\ InFlight = {}
    /\ fanRet' = WaitReturn(groupErr, result)
    /\ fanPc' = "done"
    /\ UNCHANGED <<fanBlocks, goIndex, slot, result, groupErr, groupCtxDone, completed,
                   firstErr, lateStarters>>
    /\ UNCHANGED nonFanVars

FanNext ==
    \/ FanStart
    \/ FanGo
    \/ FanDownloaded
    \/ FanDownloadFailed
    \/ FanCallerCancels
    \/ FanWait

(***************************************************************************)
(* The functions of handler.go that read no state, applied to inputs drawn *)
(* from bounded sets.                                                      *)
(***************************************************************************)
\* the sentinel errors mapToGrpcError knows, and one it does not know
ErrorKinds ==
    {"ErrItemNotFound", "ErrNoEventHistory", "ErrInvalidEventId", "ErrOutOfRange",
     "ErrInvalidHeight", "ErrInvalidChain", "ErrRequestCanceled", "ErrInvalidParameters",
     "parser.ErrNotImplemented", "errNotImplemented", "context.Canceled",
     "context.DeadlineExceeded", "errNoNewEventForTooLong", "errServerShutDown", "storage"}

\* error chains of at most MaxChainKinds sentinels, with or without a status error
MapperErrors ==
    {NilErr} \cup
        {Err(g, ks, "") : g \in {"", "NotFound", "ResourceExhausted", "InvalidArgument",
                                  "FailedPrecondition"},
                          ks \in {k \in SUBSET ErrorKinds : Cardinality(k) <= MaxChainKinds}}

PureInit ==
    /\ fnName = ""
    /\ fnInput = <<>>
    /\ fnOutput = <<>>

\* the status errors of the throttler (line 973), of the validation of the tag
\* (line 733), of the range (lines 740-750) and of the cursor (lines 1270-1299), and of
\* the watermark check (lines 799-805)
PreClassifiedErrors ==
    {errRateLimitExceeded,
     validateTag(LatestBlockTag + 1),
     validateBlockRange(1, 1, MaxNumBlocks),
     validateBlockRange(0, MaxNumBlocks + 1, MaxNumBlocks),
     CheckWatermark(2, 0)}
        \cup {parseChainEventsRequest({1}, req, LatestEventTag).err :
                  req \in {[sequence |-> <<"x">>, initialPositionInStream |-> <<>>,
                            sequenceNum |-> 0],
                           [sequence |-> <<>>, initialPositionInStream |-> <<"h">>,
                            sequenceNum |-> 0]}}

\* mapToGrpcError is applied to an error of a method of a service, and to what it
\* returned once more; each behaviour applies one function to one input
ApplyMapToGrpcError ==
    /\ fnName = ""
    /\ \E err \in MapperErrors \cup PreClassifiedErrors,
          service \in {FullServiceName, ReflectionService} :
        /\ fnInput' = [err |-> err, service |-> service]
        /\ fnOutput' = [err |-> mapToGrpcError(err, service),
                        counted |-> EmitsErrorCounter(err, service),
                        again |-> mapToGrpcError(mapToGrpcError(err, service), service)]
    /\ fnName' = "mapToGrpcError"
    /\ UNCHANGED nonPureVars

\* Client ids.  A string is a sequence of characters.
UpperLetters ==
    <<"A", "B", "C", "D", "E", "F", "G", "H", "I", "J", "K", "L", "M", "N", "O", "P", "Q",
      "R", "S", "T", "U", "V", "W", "X", "Y", "Z">>

LowerLetters ==
    <<"a", "b", "c", "d", "e", "f", "g", "h", "i", "j", "k", "l", "m", "n", "o", "p", "q",
      "r", "s", "t", "u", "v", "w", "x", "y", "z">>

InSeq(c, chars) == \E i \in 1..Len(chars) : chars[i] = c

\* unicode.IsSpace, unicode.IsLetter, unicode.IsNumber and unicode.ToLower on the
\* characters of the model
IsSpace(c) == c \in {" ", "\t"}

IsLetter(c) == InSeq(c, UpperLetters) \/ InSeq(c, LowerLetters)

IsNumber(c) == IsDigit(c)

ToLower(c) ==
    IF InSeq(c, UpperLetters)
       THEN LowerLetters[CHOOSE i \in 1..Len(UpperLetters) : UpperLetters[i] = c]
       ELSE c

\* strings.TrimSpace
RECURSIVE TrimLeft(_)
TrimLeft(str) ==
    IF str # <<>> /\ IsSpace(Head(str)) THEN TrimLeft(Tail(str)) ELSE str

RECURSIVE TrimRight(_)
TrimRight(str) ==
    IF str # <<>> /\ IsSpace(str[Len(str)])
       THEN TrimRight(SubSeq(str, 1, Len(str) - 1))
       ELSE str

TrimSpace(str) == TrimRight(TrimLeft(str))

\* strings.Split(s, ":")[0]
RECURSIVE BeforeColon(_)
BeforeColon(str) ==
    IF str = <<>> \/ Head(str) = ":" THEN <<>> ELSE <<Head(str)>> \o BeforeColon(Tail(str))

\* the function given to strings.Map, lines 867-877; <<>> for a dropped character
MapRune(r) ==
    IF IsSpace(r) THEN <<"_">>
    ELSE IF IsLetter(r) THEN <<ToLower(r)>>
    ELSE IF IsNumber(r) \/ r \in {"_", "-", "/"} THEN <<r>>
    ELSE <<>>

\* strings.Map
RECURSIVE MapString(_)
MapString(str) ==
    IF str = <<>> THEN <<>> ELSE MapRune(Head(str)) \o MapString(Tail(str))

\* unknownClientID
unknownClientID == <<"u", "n", "k", "n", "o", "w", "n">>

\* sanitizeClientID, handler.go lines 859-878
sanitizeClientID(str) ==
    LET trimmed == BeforeColon(TrimSpace(str))
    IN  IF trimmed = <<>> THEN unknownClientID ELSE MapString(trimmed)

\* newAuthContext, handler.go lines 841-857: md is whether the call carries metadata,
\* values the values of its client id header
newAuthContext(md, values) ==
    IF ~md THEN unknownClientID
    ELSE IF Len(values) > 0 THEN sanitizeClientID(values[1])
    ELSE sanitizeClientID(unknownClientID)

\* the characters header values are made of
HeaderChars == {"M", "y", "7", " ", "\t", ":", "_", "-", "/", "!"}

RECURSIVE StringsUpTo(_)
StringsUpTo(n) ==
    IF n = 0 THEN {<<>>}
    ELSE StringsUpTo(n - 1)
            \cup {Append(str, c) : str \in {t \in StringsUpTo(n - 1) : Len(t) = n - 1},
                                   c \in HeaderChars}

\* the header values of the examples
ExampleHeaders ==
    { <<" ", " ", "M", "y", "-", "C", "l", "i", "e", "n", "t", ":", "s", "e", "s", "s", "i",
        "o", "n", "-", "x", "y", "z", " ", " ">>,
      <<":">>,
      <<"f", "o", "o", " ", "b", "a", "r", "/", "b", "a", "z">> }

HeaderValues == StringsUpTo(MaxHeaderLen) \cup ExampleHeaders

\* a request arrives and newAuthContext attaches its client id
ApplyNewAuthContext ==
    /\ fnName = ""
    /\ \E md \in BOOLEAN, values \in {<<>>} \cup {<<v>> : v \in HeaderValues} :
        /\ fnInput' = [md |-> md, values |-> values]
        /\ fnOutput' = newAuthContext(md, values)
    /\ fnName' = "newAuthContext"
    /\ UNCHANGED nonPureVars

\* a handler behind a feature flag runs under some configuration, and its error goes
\* through the error interceptor
ApplyGatedHandler ==
    /\ fnName = ""
    /\ \E method \in GatedMethods, ti \in BOOLEAN, vas \in BOOLEAN :
        \E out \in GatedHandler(method, ti, vas) :
            /\ fnName' = method
            /\ fnInput' = [transactionIndexing |-> ti, verifiedAccountStateEnabled |-> vas]
            /\ fnOutput' = [err    |-> out.err,
                            status |-> mapToGrpcError(out.err, FullServiceName),
                            reads  |-> out.reads,
                            served |-> out.served]
    /\ UNCHANGED nonPureVars

\* GetVersionedChainEvent, handler.go lines 1313-1373.  An entry of the event log:
VersionedEvent(id, shape) ==
    [eventId      |-> id,
     blockHash    |-> shape.blockHash,
     parentHash   |-> shape.parentHash,
     eventType    |-> shape.eventType,
     blockSkipped |-> shape.blockSkipped,
     tag          |-> shape.tag,
     blockHeight  |-> 3]

\* the source event is +h3 of block "A"
FromShape ==
    [blockHash |-> "A", parentHash |-> "P", eventType |-> BLOCK_ADDED,
     blockSkipped |-> FALSE, tag |-> 1]

\* what the events of toEventTag at that height look like: the same block event, or
\* one that differs from it in one field
EventShapes ==
    {FromShape,
     [FromShape EXCEPT !.blockHash = "B"],
     [FromShape EXCEPT !.parentHash = "Q"],
     [FromShape EXCEPT !.eventType = BLOCK_REMOVED],
     [FromShape EXCEPT !.blockSkipped = TRUE],
     [FromShape EXCEPT !.tag = 2]}

\* matchedEvent == nil
NilEvent == VersionedEvent(-1, FromShape)

SameBlockEvent_IgnoresType(event, fromEvent) ==
    /\ event.blockHash = fromEvent.blockHash
    /\ event.parentHash = fromEvent.parentHash
    /\ event.blockSkipped = fromEvent.blockSkipped
    /\ event.tag = fromEvent.tag

\* lines 1342-1346
SameBlockEvent(event, fromEvent) ==
    /\ event.blockHash = fromEvent.blockHash
    /\ event.parentHash = fromEvent.parentHash
    /\ event.eventType = fromEvent.eventType
    /\ event.blockSkipped = fromEvent.blockSkipped
    /\ event.tag = fromEvent.tag

\* lines 1341-1351: the loop over the events, matchedEvent being matched
RECURSIVE MatchEvents(_, _, _)
MatchEvents(fromEvent, evs, matched) ==
    IF evs = <<>> THEN matched
    ELSE MatchEvents(fromEvent, Tail(evs),
                     IF /\ SameBlockEvent(Head(evs), fromEvent)
                        /\ (matched = NilEvent \/ Head(evs).eventId > matched.eventId)
                        THEN Head(evs)
                        ELSE matched)

\* lines 1141-1152, 1223-1235 and 1358-1371: the event as the client gets it
BlockchainEvent(e) ==
    [sequence    |-> encodeEventIdToSequence(e.eventId),
     sequenceNum |-> e.eventId,
     type        |-> e.eventType,
     tag         |-> e.tag,
     hash        |-> e.blockHash,
     height      |-> e.blockHeight,
     skipped     |-> e.blockSkipped]

NoBlockchainEvent == <<>>

\* the call: req.fromSequence, what GetEventByEventId and GetEventsByBlockHeight return
GetVersionedChainEvent(fromSequence, from, to) ==
    IF fromSequence # <<>> /\ ~decodeSequenceToEventId(fromSequence).ok
       THEN [err |-> StatusErr("InvalidArgument", "invalid sequence"),
             event |-> NoBlockchainEvent]
    ELSE IF ~from.err.nil THEN [err |-> from.err, event |-> NoBlockchainEvent]
    ELSE IF ~to.err.nil THEN [err |-> to.err, event |-> NoBlockchainEvent]
    ELSE LET matchedEvent == MatchEvents(from.val, to.val, NilEvent)
         IN  IF matchedEvent = NilEvent
                THEN [err |-> Err("", {}, "cannot find matching event"),
                      event |-> NoBlockchainEvent]
                ELSE [err |-> NilErr, event |-> BlockchainEvent(matchedEvent)]

\* the events a height can hold under toEventTag: distinct ids, any order
EventLists ==
    {evs \in UNION {[1..n -> {VersionedEvent(id, sh) : id \in 1..MaxEventId,
                                                      sh \in EventShapes}] :
                        n \in 0..MaxEventId} :
        \A i, j \in 1..Len(evs) : i # j => evs[i].eventId # evs[j].eventId}

VersionedCalls ==
    {[fromSequence |-> <<>>,
      from |-> [err |-> NilErr, val |-> VersionedEvent(1, FromShape)],
      to   |-> [err |-> NilErr, val |-> evs]] : evs \in EventLists}
        \cup
    {[fromSequence |-> sq,
      from |-> [err |-> fe, val |-> VersionedEvent(1, FromShape)],
      to   |-> [err |-> te, val |-> << VersionedEvent(2, FromShape) >>]] :
        sq \in {<<>>, <<"1">>, <<"x">>},
        fe \in {NilErr, KindErr("ErrItemNotFound")},
        te \in {NilErr, KindErr("storage")}}

ApplyGetVersionedChainEvent ==
    /\ fnName = ""
    /\ \E c \in VersionedCalls :
        /\ fnInput' = c
        /\ fnOutput' = GetVersionedChainEvent(c.fromSequence, c.from, c.to)
    /\ fnName' = "GetVersionedChainEvent"
    /\ UNCHANGED nonPureVars

\* an event id is put on the wire and read back: the Sequence alone, and the event of
\* that id as StreamChainEvents and GetChainEvents build it
ApplyEncodeEventIdToSequence ==
    /\ fnName = ""
    /\ \E id \in 0..MaxSequenceNum :
        /\ fnInput' = id
        /\ fnOutput' = [sequence |-> encodeEventIdToSequence(id),
                        decoded  |-> decodeSequenceToEventId(encodeEventIdToSequence(id)),
                        event    |-> BlockchainEvent(EventEntry(id))]
    /\ fnName' = "encodeEventIdToSequence"
    /\ UNCHANGED nonPureVars

\* GetChainEvents is called by any client with any request on any state of the index,
\* with any appends of ingestion between the parse and the read of the events
ApplyGetChainEvents ==
    /\ fnName = ""
    /\ \E ids \in IndexStates, req \in ChainEventsRequests, eventTag \in EventTags,
          maxNumEvents \in MaxNumEventsValues, client \in Clients :
        \E later \in GrownFrom(ids) :
        \E out \in GetChainEvents(ids, later, req, eventTag, maxNumEvents) :
            /\ fnInput' = [ids |-> ids, later |-> later, req |-> req,
                           eventTag |-> eventTag, maxNumEvents |-> maxNumEvents,
                           clientID |-> client]
            /\ fnOutput' = [parsed |-> parseChainEventsRequest(ids, req, eventTag),
                            err    |-> out.err,
                            status |-> mapToGrpcError(out.err, FullServiceName),
                            events |-> out.events,
                            served |-> GetChainEventsMetrics(out, client, eventTag)]
    /\ fnName' = "GetChainEvents"
    /\ UNCHANGED nonPureVars

(***************************************************************************)
(* The interceptor chains of Register, handler.go lines 233-245: the       *)
(* request interceptor around the error interceptor around the rate limit  *)
(* interceptor around the handler.  buckets are the tokens the throttler   *)
(* holds for each client id, outcome what the handler returns when it is  *)
(* called.                                                                 *)
(***************************************************************************)
\* lines 1059-1062: the counter mapToGrpcError increments, with its tags
ErrorCounter(err, fullMethod) ==
    IF EmitsErrorCounter(err, getServiceAndMethod(fullMethod).service)
       THEN {[method |-> getServiceAndMethod(fullMethod).method,
              status |-> MappedCode(err).code]}
       ELSE {}

RequestCounter_AlwaysOK(fullMethod, clientID, err) ==
    [service  |-> getServiceAndMethod(fullMethod).service,
     method   |-> getServiceAndMethod(fullMethod).method,
     clientID |-> clientID,
     status   |-> "OK"]

\* lines 911-916 and 939-944: the counter of the request interceptors, with its tags
RequestCounter(fullMethod, clientID, err) ==
    [service  |-> getServiceAndMethod(fullMethod).service,
     method   |-> getServiceAndMethod(fullMethod).method,
     clientID |-> clientID,
     status   |-> StatusCode(err)]

\* the increments of one RPC in the order they are made: the error counter inside
\* mapToGrpcError, the request counter after the inner interceptors returned
Increments(errorCounter, requestCounter) ==
    [i \in 1..Cardinality(errorCounter) |->
        [counter |-> "error", tags |-> CHOOSE t \in errorCounter : TRUE]]
        \o <<[counter |-> "request", tags |-> requestCounter]>>

\* unaryErrorInterceptor, handler.go lines 956-959, with the interceptor and the handler
\* it calls
unaryErrorInterceptor(tok, fullMethod, outcome) ==
    LET limit == unaryRateLimitInterceptor(tok, fullMethod)
        err == IF limit.proceed THEN outcome ELSE errRateLimitExceeded
    IN  [gate         |-> limit,
         err          |-> mapToGrpcError(err, getServiceAndMethod(fullMethod).service),
         errorCounter |-> ErrorCounter(err, fullMethod)]

streamErrorInterceptor_Unmapped(tok, fullMethod, outcome) ==
    LET limit == streamRateLimitInterceptor(tok, fullMethod)
        err == IF limit.proceed THEN outcome ELSE errRateLimitExceeded
    IN  [gate |-> limit, err |-> err, errorCounter |-> {}]

\* streamErrorInterceptor, handler.go lines 962-965
streamErrorInterceptor(tok, fullMethod, outcome) ==
    LET limit == streamRateLimitInterceptor(tok, fullMethod)
        err == IF limit.proceed THEN outcome ELSE errRateLimitExceeded
    IN  [gate         |-> limit,
         err          |-> mapToGrpcError(err, getServiceAndMethod(fullMethod).service),
         errorCounter |-> ErrorCounter(err, fullMethod)]

\* unaryRequestInterceptor, handler.go lines 903-924: the handler is called with the
\* context newAuthContext returned, which is the one the rate limiter reads the client
\* id from
unaryRequestInterceptor(buckets, fullMethod, md, values, outcome) ==
    LET clientID == newAuthContext(md, values)
        inner == unaryErrorInterceptor(buckets[clientID], fullMethod, outcome)
    IN  [asked          |-> inner.gate.asked,
         client         |-> clientID,
         rcu            |-> inner.gate.rcu,
         allowed        |-> inner.gate.allowed,
         buckets        |-> [buckets EXCEPT ![clientID] = inner.gate.tokens],
         invoked        |-> inner.gate.proceed,
         err            |-> inner.err,
         requestCounter |-> RequestCounter(fullMethod, clientID, inner.err),
         errorCounter   |-> inner.errorCounter,
         increments     |-> Increments(inner.errorCounter,
                                       RequestCounter(fullMethod, clientID, inner.err))]

\* streamRequestInterceptor, handler.go lines 926-953: the handler is called with a
\* stream wrapped to return the context of newAuthContext
streamRequestInterceptor(buckets, fullMethod, md, values, outcome) ==
    LET clientID == newAuthContext(md, values)
        inner == streamErrorInterceptor(buckets[clientID], fullMethod, outcome)
    IN  [asked          |-> inner.gate.asked,
         client         |-> clientID,
         rcu            |-> inner.gate.rcu,
         allowed        |-> inner.gate.allowed,
         buckets        |-> [buckets EXCEPT ![clientID] = inner.gate.tokens],
         invoked        |-> inner.gate.proceed,
         err            |-> inner.err,
         requestCounter |-> RequestCounter(fullMethod, clientID, inner.err),
         errorCounter   |-> inner.errorCounter,
         increments     |-> Increments(inner.errorCounter,
                                       RequestCounter(fullMethod, clientID, inner.err))]

\* the client id headers of the requests, and the client ids they make
ChainHeaders == {<<>>, <<(<<"M", "y">>)>>, <<(<<":">>)>>}

ChainClientIDs == {newAuthContext(md, values) : md \in BOOLEAN, values \in ChainHeaders}

\* the tokens of a bucket: none, and enough for a method of each weight
BucketLevels == {0, 1, 10, 50}

\* the same request goes through the unary chain and through the stream chain
ApplyInterceptorChains ==
    /\ fnName = ""
    /\ \E buckets \in [ChainClientIDs -> BucketLevels], rpc \in Rpcs, md \in BOOLEAN,
          values \in ChainHeaders, transactionIndexing \in BOOLEAN :
        \E outcome \in HandlerOutcomes(rpc.fullMethod, transactionIndexing) :
            /\ fnInput' = [buckets |-> buckets, fullMethod |-> rpc.fullMethod, md |-> md,
                           values |-> values, handlerErr |-> outcome]
            /\ fnOutput' =
                  [unary  |-> unaryRequestInterceptor(buckets, rpc.fullMethod, md, values,
                                                      outcome),
                   stream |-> streamRequestInterceptor(buckets, rpc.fullMethod, md, values,
                                                       outcome)]
    /\ fnName' = "interceptors"
    /\ UNCHANGED nonPureVars

\* full methods of every form: those of the RPCs, and some with a slash more, without
\* a slash or with an empty part
FullMethods ==
    {rpc.fullMethod : rpc \in Rpcs}
        \cup {<<"", "v1", FullServiceName, "GetRawBlock">>, <<"", "a", "b", "c">>,
              <<"GetRawBlock">>, <<"", FullServiceName, "">>, <<"", "", "a", "b">>}

\* getServiceAndMethod is applied to a full method
ApplyGetServiceAndMethod ==
    /\ fnName = ""
    /\ \E fullMethod \in FullMethods :
        /\ fnInput' = fullMethod
        /\ fnOutput' = getServiceAndMethod(fullMethod)
    /\ fnName' = "getServiceAndMethod"
    /\ UNCHANGED nonPureVars

PureNext ==
    \/ ApplyInterceptorChains
    \/ ApplyGetServiceAndMethod
    \/ ApplyMapToGrpcError
    \/ ApplyGetChainEvents
    \/ ApplyEncodeEventIdToSequence
    \/ ApplyGetVersionedChainEvent
    \/ ApplyGatedHandler
    \/ ApplyNewAuthContext

(***************************************************************************)
(* The specifications.                                                     *)
(***************************************************************************)
\* the server after NewServer; the stream and the range reads do not read the
\* feature flag
Init ==
    /\ StreamInit /\ RangeInit /\ RpcInit /\ TxInit /\ FanInit /\ PureInit /\ CursorInit
    /\ ProcessInit
    /\ streamClientID = "unknown"
    /\ featureTransactionIndexing = FALSE

Spec == Init /\ [][StreamNext]_vars

RangeSpec == Init /\ [][RangeNext]_vars

\* the server is configured with or without transaction indexing
ConfiguredInit ==
    /\ StreamInit /\ RangeInit /\ RpcInit /\ TxInit /\ FanInit /\ PureInit /\ CursorInit
    /\ ProcessInit
    /\ streamClientID = "unknown"
    /\ featureTransactionIndexing \in BOOLEAN

RpcSpec == ConfiguredInit /\ [][RpcNext]_vars

\* the calls come from a client with or without a client id header
MeteredInit ==
    /\ StreamInit /\ RangeInit /\ RpcInit /\ TxInit /\ FanInit /\ PureInit /\ CursorInit
    /\ ProcessInit
    /\ featureTransactionIndexing = FALSE
    /\ streamClientID \in Clients

MetricSpec == MeteredInit /\ [][StreamNext]_vars

TxSpec == Init /\ [][TxNext]_vars

FanSpec == Init /\ [][FanNext]_vars

PureSpec == Init /\ [][PureNext]_vars

CursorSpec == Init /\ [][CursorNext]_vars

\* the hooks of the server called in any order: onStop may be called again
LifecycleNext ==
    \/ onStop
    \/ ~closePanic /\ StreamNext

LifecycleSpec == Init /\ [][LifecycleNext]_vars

\* The goroutine of the call keeps running, time passes and the ticker fires; a Go
\* select with several ready cases picks one at random, so a case that is ready again
\* and again is taken in the end.
LiveSpec ==
    /\ Init
    /\ [][StreamNext]_vars
    /\ WF_vars(Poll)
    /\ WF_vars(SendEvent)
    /\ WF_vars(TickFire)
    /\ WF_vars(TimePasses)
    /\ SF_vars(SelectTick)
    /\ SF_vars(SelectStreamDone)
    /\ SF_vars(SelectCtxDone)

(***************************************************************************)
(* Properties of the event stream.                                         *)
(***************************************************************************)
Aborted(st) == ~st.nil /\ st.grpc = "Aborted" /\ st.desc = "please retry after a moment"

\* the events of the index after the cursor the call started from, up to id
Between(lo, hi) == {i \in eventIds : lo < i /\ i < hi}

\* C1: in one StreamChainEvents call the event ids whose Send succeeded are strictly
\* increasing, whatever the interleaving of its polls with appends to the index.
C1_SentStrictlyIncreasing ==
    \A i, j \in 1..Len(sent) : i < j => sent[i] < sent[j]

C1_Witness == Len(sent) >= 3 /\ pc = "select"

\* C2: delivery is contiguous from the cursor: when an event has been sent, every event
\* of the index between the call's starting cursor and it was sent before it.
C2_NoIndexedEventSkipped ==
    \A i \in 1..Len(sent) :
        \A id \in Between(startCursor, sent[i]) : \E j \in 1..(i - 1) : sent[j] = id

\* a full batch was polled and sent, across a gap of the index
C2_Witness ==
    /\ Len(sent) >= StreamingBatchSize
    /\ \E id \in 1..MaxEventId : id \notin eventIds /\ sent[1] < id /\ id < sent[Len(sent)]

\* C3: a call opened with sequenceNum = L, the last id the client received before the
\* previous call ended, delivers first the smallest indexed id greater than L, and over
\* the calls of the chain no indexed event after the original cursor is left out.
C3_ResumeAtLeastOnce ==
    /\ (resumed /\ sent # <<>>) =>
           sent[1] = SetMin({i \in eventIds : i > resumeFrom})
    /\ (delivered # {}) =>
           \A id \in Between(chainStart, SetMax(delivered)) : id \in delivered

C3_Witness ==
    /\ resumed
    /\ sent # <<>>
    /\ \E id \in delivered : id < sent[1]

\* a poll or a Send failed: the call ended for a reason of the index or the transport
FailedIO == exit \in {"poll-error", "send-error", "client-gone"}

\* C4 as stated: a call that was running when onStop closed the signal returns an error
\* that is mapped to ABORTED "please retry after a moment" (calls that a failed poll or
\* Send ended are left aside).
C4_ActiveStreamReturnsShutdownError ==
    (pc = "done" /\ activeAtStop /\ ~FailedIO) => Aborted(ClientStatus)

\* C4, amended: once onStop closed the signal every running call ends; a call that
\* waits in the select with neither a tick nor a cancellation ready leaves at once by
\* the streamDone case, and a call that leaves by that case returns the shutdown
\* error, which the error mapper turns into ABORTED "please retry after a moment".
C4_ShutdownEndsStreams ==
    /\ [](pc = "done" /\ exit = "shutdown" =>
              streamDone /\ "errServerShutDown" \in ret.kinds /\ Aborted(ClientStatus))
    /\ [][(pc = "select" /\ streamDone /\ ~tickReady /\ ~ctxDone /\ pc' # pc) =>
              (pc' = "done" /\ exit' = "shutdown")]_vars
    /\ ((streamDone /\ Active) ~> ~Active)

C4_Witness == pc = "done" /\ exit = "shutdown" /\ activeAtStop /\ sent # <<>>

\* C5: a call whose polls keep returning no events and which is neither cancelled nor
\* shut down ends, with the idle-timeout error mapped to ABORTED, at the first empty
\* poll at which the backoff finds StreamingMaxNoEventTime elapsed since its last reset.
C5_IdleTimeout ==
    /\ [](pc = "done" /\ exit = "idle-timeout" => Aborted(ClientStatus))
    /\ [][(pc = "poll" /\ pc' # pc
              /\ GetEventsAfterEventId(eventIds, lastSentEventId, StreamingBatchSize) = <<>>) =>
              IF elapsedTime > StreamingMaxNoEventTime
                 THEN pc' = "done" /\ exit' \in {"idle-timeout", "poll-error"}
                 ELSE pc' = "select" \/ (pc' = "done" /\ exit' = "poll-error")]_vars
    /\ [][(Active /\ pc' = "done" /\ ~ctxDone /\ ~streamDone
              /\ exit' \notin {"poll-error", "client-gone", "send-error"}) =>
              exit' = "idle-timeout"]_vars
    /\ (Active ~> (pc = "done" \/ pc = "send"))

C5_Witness == pc = "done" /\ exit = "idle-timeout" /\ ~ctxDone /\ ~streamDone

\* C6 as stated: a call whose client cancelled its context returns nil (calls that a
\* failed poll or Send ended are left aside).
C6_CancelledCallReturnsNil ==
    (pc = "done" /\ ctxDone /\ ~FailedIO) => ret.nil

\* C6, amended: a call that leaves the select by the ctx.Done() case returns nil, and a
\* cancelled call that waits in the select with neither a tick nor the shutdown signal
\* ready leaves at once by that case.
C6_CtxDoneCaseReturnsNil ==
    /\ [](pc = "done" /\ exit = "ctx-cancel" => ctxDone /\ ret.nil /\ ClientStatus.nil)
    /\ [][(pc = "select" /\ ctxDone /\ ~tickReady /\ ~streamDone /\ pc' # pc) =>
              (pc' = "done" /\ exit' = "ctx-cancel" /\ ret'.nil)]_vars

C6_Witness == pc = "done" /\ exit = "ctx-cancel" /\ sent # <<>>

(***************************************************************************)
(* Properties of the range reads.                                          *)
(***************************************************************************)
\* C7: for each of the four range requests, when the latest block read after the
\* fetch of the metadata is lower than endHeight - 1 the call fails with
\* FAILED_PRECONDITION and no Download or PreSign call is made for it; a response is
\* returned, and payload storage touched, only when endHeight - 1 <= that watermark.
C7_ReorgSafeRangeRead ==
    /\ (latestRead /\ latest < endHeight - 1) =>
           /\ rangePc = "done"
           /\ ~RangeStatus.nil
           /\ RangeStatus.grpc = "FailedPrecondition"
           /\ blobCalls = 0
           /\ ~responded
    /\ responded => (latestRead /\ endHeight - 1 <= latest)
    /\ blobCalls > 0 => (latestRead /\ endHeight - 1 <= latest)

\* the index returned two blocks and a reorg then cut the last of them off
C7_Witness ==
    /\ rangePc = "done"
    /\ Len(blocks) >= 2
    /\ latestRead
    /\ latest = endHeight - 2

(***************************************************************************)
(* Properties of the admission control.                                    *)
(***************************************************************************)
\* the AllowN calls of a client since the last refill
HistoryOf(client) == SelectSeq(history, LAMBDA e : e.client = client)

\* C8: between two refills a call of weight n is admitted iff the client's bucket holds
\* at least n tokens, an admitted call takes exactly n tokens and a rejected call none;
\* so from a full bucket of 100 tokens three calls in a row of a method of weight 50
\* are admitted, admitted and rejected with RESOURCE_EXHAUSTED.
C8_ThrottleAccounting ==
    /\ \A k \in 1..Len(history) :
           /\ history[k].before =
                  baseTokens[history[k].client] - Charged(history, history[k].client, k - 1)
           /\ history[k].allowed <=> history[k].before >= history[k].rcu
    /\ \A c \in Clients : tokens[c] = baseTokens[c] - Charged(history, c, Len(history))
    /\ \A c \in Clients :
           (/\ Len(HistoryOf(c)) >= 3
            /\ baseTokens[c] = Burst
            /\ 2 * 50 <= Burst
            /\ Burst < 3 * 50
            /\ \A i \in 1..3 : /\ HistoryOf(c)[i].method \in DOMAIN rcuByMethod
                               /\ rcuByMethod[HistoryOf(c)[i].method] = 50)
               => /\ HistoryOf(c)[1].allowed
                  /\ HistoryOf(c)[2].allowed
                  /\ ~HistoryOf(c)[3].allowed
    /\ (callPc = "done" /\ gate.asked /\ ~gate.allowed) =>
           callErr.grpc = "ResourceExhausted"
    /\ (callPc = "done" /\ gate.asked /\ gate.allowed /\ handlerErr.nil) => callErr.nil

\* three calls in a row of GetRawBlocksByRange by one client: OK, OK, RESOURCE_EXHAUSTED
C8_Witness ==
    /\ Len(history) = 3
    /\ \A i \in 1..3 : /\ history[i].client = call.client
                       /\ history[i].method = "GetRawBlocksByRange"
    /\ history[1].allowed /\ history[2].allowed /\ ~history[3].allowed
    /\ callPc = "done"
    /\ ~invoked
    /\ StatusCode(callErr) = "ResourceExhausted"

\* the handler of the call on record is one of the system's own service
OwnServiceCall == grpcDispatch(call.fullMethod).service = FullServiceName

\* C9 as stated: for an RPC of the system's own service, unary or stream, that the
\* throttler rejected the handler is never called and the client receives
\* RESOURCE_EXHAUSTED; a handler of that service runs only after AllowN returned true
\* for the weight of its method.
C9_RejectedNeverReachesHandler ==
    /\ (callPc # "idle" /\ gate.asked /\ ~gate.allowed) =>
           /\ callPc = "done"
           /\ ~invoked
           /\ ~callErr.nil
           /\ callErr.grpc = "ResourceExhausted"
    /\ (callPc # "idle" /\ OwnServiceCall /\ (invoked \/ callPc = "handler")) =>
           /\ gate.asked
           /\ gate.allowed
           /\ gate.rcu = getRCUByMethod(grpcDispatch(call.fullMethod).method)

\* StreamChainEvents, called by a full method without the leading slash by a client
\* whose bucket is empty, ran without a question to the throttler
C9_Witness ==
    /\ callPc = "done"
    /\ call.stream
    /\ OwnServiceCall
    /\ invoked
    /\ ~gate.asked
    /\ tokens[call.client] = 0

\* the part of C9 that holds: a call whose full method getServiceAndMethod reads as one
\* of the system's own service is rejected without its handler when AllowN is false,
\* and its handler runs only after AllowN returned true for the weight of its method
ThrottledWhenReadAsOwnService ==
    LET sm == getServiceAndMethod(call.fullMethod)
    IN  /\ (callPc # "idle" /\ gate.asked /\ ~gate.allowed) =>
               /\ callPc = "done"
               /\ ~invoked
               /\ ~callErr.nil
               /\ callErr.grpc = "ResourceExhausted"
        /\ (callPc # "idle" /\ sm.service = FullServiceName
                /\ (invoked \/ callPc = "handler")) =>
               /\ gate.asked
               /\ gate.allowed
               /\ gate.rcu = getRCUByMethod(sm.method)
        /\ (callPc # "idle" /\ sm.service = FullServiceName) => gate.asked

\* a StreamChainEvents call was rejected
RejectedStreamCall ==
    /\ callPc = "done"
    /\ call.stream
    /\ getServiceAndMethod(call.fullMethod).service = FullServiceName
    /\ gate.asked
    /\ ~gate.allowed
    /\ ~invoked

\* C10: whatever the handler of an admitted call returns, the client's bucket holds
\* after it what it held right after the admission, unless a refill came in between.
C10_CostIsNeverGivenBack ==
    /\ []((callPc = "done" /\ gate.asked /\ gate.allowed /\ ~refilled) =>
              tokens[call.client] = gate.tokens)
    /\ [][(callPc = "handler" /\ callPc' = "done") => tokens' = tokens]_vars

\* an admitted GetBlockByTransaction failed because the feature is off
C10_Witness ==
    /\ callPc = "done"
    /\ invoked
    /\ gate.asked
    /\ gate.allowed
    /\ ~refilled
    /\ ~featureTransactionIndexing
    /\ StatusCode(callErr) = "Unimplemented"
    /\ tokens[call.client] < Burst

(***************************************************************************)
(* Properties of the lookups by transaction hash.                          *)
(***************************************************************************)
\* the records of the lookup whose block is the canonical one the lookup read
MatchingRecords ==
    {i \in 1..Len(txs) : /\ canonicalRead[txs[i].blockNumber] # ""
                         /\ canonicalRead[txs[i].blockNumber] = txs[i].blockHash}

\* C11: every block getBlocksFromTransactionStorage returns is the canonical block at
\* the height of a record whose blockHash is that block's hash, and a record whose
\* blockHash differs from the canonical hash at its height, or whose height has no
\* canonical block, adds nothing to the result.
C11_OnlyCanonicalInclusions ==
    (txPc = "done" /\ txErr.nil) =>
        /\ \A k \in 1..Len(results) :
               /\ results[k].hash = canonicalRead[results[k].height]
               /\ \E i \in MatchingRecords : /\ txs[i].blockNumber = results[k].height
                                             /\ txs[i].blockHash = results[k].hash
        /\ Len(results) = Cardinality(MatchingRecords)

\* records (h, A) and (h, B) with canonical hash B at h yield only the B block
C11_Witness ==
    /\ txPc = "done"
    /\ txErr.nil
    /\ Len(txs) = 2
    /\ txs[1].blockNumber = txs[2].blockNumber
    /\ txs[1].blockHash = "A"
    /\ txs[2].blockHash = "B"
    /\ results = <<[height |-> txs[1].blockNumber, hash |-> "B"]>>

(***************************************************************************)
(* Properties of the fan-out of downloads.                                 *)
(***************************************************************************)
\* C12: when every download succeeds getBlocksFromBlobStorage returns a list as long
\* as its input whose position i holds the payload of metadata i, in whatever order
\* the downloads completed; for a range the payloads are in ascending height order.
C12_PayloadsInInputOrder ==
    (fanPc = "done" /\ fanRet.err.nil) =>
        /\ Len(fanRet.val) = Len(fanBlocks)
        /\ \A i \in 1..Len(fanBlocks) : fanRet.val[i] = Payload(fanBlocks[i])
        /\ \A i, j \in 1..Len(fanRet.val) : i < j => fanRet.val[i][2] < fanRet.val[j][2]

\* three downloads succeeded and a later position completed before an earlier one
C12_Witness ==
    /\ fanPc = "done"
    /\ fanRet.err.nil
    /\ Len(fanBlocks) = 3
    /\ \E k \in 1..(Len(completed) - 1) : completed[k] > completed[k + 1]

\* C13: when a download fails getBlocksFromBlobStorage returns an error that wraps
\* the first download error and no payloads at all; the context the workers share is
\* cancelled from the first error on, so no position handed to the group after it
\* gets a payload.
C13_FirstErrorFailsTheBatch ==
    /\ (fanPc = "done" /\ SlotsIn("failed") # {}) =>
           /\ ~fanRet.err.nil
           /\ fanRet.err = firstErr
           /\ fanRet.val = <<>>
    /\ (fanPc = "done" /\ ~fanRet.err.nil) => fanRet.val = <<>>
    /\ fanPc = "done" =>
           \/ fanRet.val = <<>>
           \/ \A i \in 1..Len(fanRet.val) : fanRet.val[i] # NilPayload
    /\ SlotsIn("failed") # {} => groupCtxDone
    /\ \A i \in lateStarters : slot[i] # "ok" /\ result[i] = NilPayload

\* a download failed after another one had delivered its payload, and a later
\* position was cancelled
C13_Witness ==
    /\ fanPc = "done"
    /\ SlotsIn("ok") # {}
    /\ \E i \in SlotsIn("failed") :
           /\ firstErr = DownloadError(i)
           /\ \E j \in lateStarters : j > i

(***************************************************************************)
(* Properties of the error mapper.                                         *)
(***************************************************************************)
\* the table of the error kinds and their codes
TableCode(kind) ==
    CASE kind = "ErrItemNotFound" -> "NotFound"
      [] kind \in {"ErrNoEventHistory", "ErrInvalidEventId", "ErrOutOfRange",
                   "ErrInvalidHeight", "ErrInvalidParameters"} -> "InvalidArgument"
      [] kind = "ErrInvalidChain" -> "FailedPrecondition"
      [] kind \in {"ErrRequestCanceled", "context.Canceled"} -> "Canceled"
      [] kind = "context.DeadlineExceeded" -> "DeadlineExceeded"
      [] kind \in {"parser.ErrNotImplemented", "errNotImplemented"} -> "Unimplemented"
      [] kind \in {"errNoNewEventForTooLong", "errServerShutDown"} -> "Aborted"
      [] OTHER -> "Internal"

\* C14: for an error of the system's own service that carries no RPC status
\* mapToGrpcError returns the code the table gives for the kind of the error (for a
\* chain of several kinds, the code of one of them), INTERNAL for every other error,
\* and nil for nil.
C14_MapperFollowsTable ==
    (fnName = "mapToGrpcError" /\ fnInput.service = FullServiceName) =>
        LET err == fnInput.err
            out == fnOutput.err
            known == {k \in err.kinds : TableCode(k) # "Internal"}
        IN  /\ err.nil <=> out.nil
            /\ (~err.nil /\ err.grpc = "") =>
                   /\ known = {} => StatusCode(out) = "Internal"
                   /\ known # {} => StatusCode(out) \in {TableCode(k) : k \in known}
                   /\ Cardinality(err.kinds) = 1 =>
                          \A k \in err.kinds : StatusCode(out) = TableCode(k)

\* an InvalidChain error was mapped to FAILED_PRECONDITION
C14_Witness ==
    /\ fnName = "mapToGrpcError"
    /\ fnInput.service = FullServiceName
    /\ fnInput.err = KindErr("ErrInvalidChain")
    /\ StatusCode(fnOutput.err) = "FailedPrecondition"

(***************************************************************************)
(* Properties of the RPCs of other services.                               *)
(***************************************************************************)
\* C15: an RPC of a service other than the system's own passes the interceptors
\* untouched: the throttler is not asked and no bucket changes, the handler is always
\* called, and the client receives the handler's error as it is, without an error
\* counter.
C15_OtherServicesPassThrough ==
    /\ [](LET sm == getServiceAndMethod(call.fullMethod)
          IN  (callPc # "idle" /\ sm.service # FullServiceName) =>
                  /\ ~gate.asked
                  /\ gate.proceed
                  /\ callPc = "done" =>
                         /\ invoked
                         /\ callErr = handlerErr
                         /\ ~errorCounted)
    /\ [][(callPc # "handler" /\ callPc' # "idle"
              /\ getServiceAndMethod(call'.fullMethod).service # FullServiceName
              /\ <<callPc, call, gate>> # <<callPc', call', gate'>>) =>
              (tokens' = tokens /\ history' = history /\ callPc' = "handler")]_vars

\* a reflection RPC of a client whose bucket is empty went through and failed
C15_Witness ==
    /\ callPc = "done"
    /\ getServiceAndMethod(call.fullMethod).service = ReflectionService
    /\ tokens[call.client] = 0
    /\ invoked
    /\ ~callErr.nil

(***************************************************************************)
(* Properties of the client ids.                                           *)
(***************************************************************************)
\* the characters a client id keeps: letters, digits, '_', '-' and '/'
KeptChar(c) == IsLetter(c) \/ IsDigit(c) \/ c \in {"_", "-", "/"}

\* the client id the claim describes for a header value, character by character
RECURSIVE Rewritten(_)
Rewritten(str) ==
    IF str = <<>> THEN <<>>
    ELSE (IF IsSpace(Head(str)) THEN <<"_">>
          ELSE IF InSeq(Head(str), UpperLetters)
              THEN <<LowerLetters[CHOOSE i \in 1..26 : UpperLetters[i] = Head(str)]>>
          ELSE IF KeptChar(Head(str)) THEN <<Head(str)>>
          ELSE <<>>) \o Rewritten(Tail(str))

\* C16: for every value of the client id header the client id attached to the request
\* is the part of the trimmed value before the first ':' with letters lowercased,
\* whitespace turned into '_' and every other character outside digits, '_', '-', '/'
\* dropped, and it is `unknown` whenever that result is empty; so it is never empty.
C16_SanitizedClientId ==
    (fnName = "newAuthContext" /\ fnInput.md /\ Len(fnInput.values) > 0) =>
        LET expected == Rewritten(BeforeColon(TrimSpace(fnInput.values[1])))
        IN  /\ fnOutput = (IF expected = <<>> THEN unknownClientID ELSE expected)
            /\ fnOutput # <<>>

\* a header value made only of dropped characters got the empty client id
C16_Witness ==
    /\ fnName = "newAuthContext"
    /\ fnInput.md
    /\ fnInput.values = << <<"!">> >>
    /\ fnOutput = <<>>

(***************************************************************************)
(* Properties of where a call starts in the event log.                     *)
(***************************************************************************)
\* the events the call on record has delivered so far, in order
Received == IF opened.rpc = "StreamChainEvents" THEN sent ELSE response.events

\* the status the client of the call on record was given, if the call has ended
CallStatus ==
    IF opened.rpc = "StreamChainEvents" THEN ClientStatus
    ELSE mapToGrpcError(response.err, FullServiceName)

CallEnded == (opened.rpc = "GetChainEvents" /\ pc # "read") \/ pc = "done"

\* the call on record asks for a supported tag and a position, and carries no sequence
PositionCall ==
    /\ opened.rpc # ""
    /\ ~opened.legacy
    /\ opened.eventTag <= LatestEventTag

LatestCall ==
    /\ PositionCall
    /\ opened.position = InitialPositionLatest
    /\ opened.ids # {}

\* C17 as stated: a call opened with LATEST delivers only events whose id is greater
\* than the greatest id the index held when the request was parsed, so the event that
\* was the greatest then is not delivered.
C17_LatestStartsAfterMax ==
    LatestCall => \A i \in 1..Len(Received) : Received[i] > SetMax(opened.ids)

\* C17: a call opened with LATEST starts at the event that was the greatest in the index
\* when the request was parsed: that event is the first it delivers, and every other
\* event it delivers has a greater id.
C17_LatestStartsAtMax ==
    LatestCall =>
        /\ \A i \in 1..Len(Received) : Received[i] >= SetMax(opened.ids)
        /\ Received # <<>> => Received[1] = SetMax(opened.ids)
        /\ \A i \in 2..Len(Received) : Received[i] > SetMax(opened.ids)

\* a stream opened with LATEST has delivered the greatest event of then and a later one
C17_Witness ==
    /\ LatestCall
    /\ opened.rpc = "StreamChainEvents"
    /\ Len(sent) >= 2
    /\ sent[1] = SetMax(opened.ids)
    /\ sent[2] > SetMax(opened.ids)

AtHeight(ids, height) == {i \in ids : EventEntry(i).blockHeight = height}

HeightCall ==
    /\ PositionCall
    /\ opened.position \notin {<<>>, InitialPositionLatest, InitialPositionEarliest}
    /\ ParseUint(opened.position).ok

EarliestCall ==
    /\ PositionCall
    /\ opened.position = InitialPositionEarliest

\* what C18 says of a height: a call opened at a decimal height H delivers first the
\* first event whose blockHeight is H; when the index has no event at H it fails with
\* NOT_FOUND, reads no events and sends nothing
StartsAtHeight ==
    HeightCall =>
        LET at == AtHeight(opened.ids, ParseUint(opened.position).val)
        IN  IF at = {}
               THEN /\ CallEnded
                    /\ CallStatus.grpc = "NotFound"
                    /\ Received = <<>>
                    /\ ~polled
               ELSE Received # <<>> =>
                        /\ Received[1] = SetMin(at)
                        /\ EventEntry(Received[1]).blockHeight = ParseUint(opened.position).val

\* C18 as stated: a call opened at a decimal height H starts at the first event of
\* that height, or fails with NOT_FOUND when there is none, and a call opened with
\* EARLIEST delivers first the event with id EventIdStartValue.
C18_StartsAtHeightOrFirstId ==
    /\ StartsAtHeight
    /\ (EarliestCall /\ Received # <<>>) => Received[1] = EventIdStartValue

\* C18: a call opened at a decimal height H starts at the first event of that height,
\* or fails with NOT_FOUND when there is none; a call opened with EARLIEST delivers
\* first the event with the least id of the index, which is the event with id
\* EventIdStartValue when the index holds it and an event with a greater id when it
\* does not.
C18_StartsAtHeightOrEarliest ==
    /\ StartsAtHeight
    /\ (EarliestCall /\ Received # <<>>) =>
            /\ Received[1] = SetMin(eventIds)
            /\ Received[1] >= EventIdStartValue
            /\ EventIdStartValue \in eventIds => Received[1] = EventIdStartValue

\* a stream opened with EARLIEST on an index that does not hold the event with id
\* EventIdStartValue has delivered the first event the index holds and the next
C18_Witness ==
    /\ EarliestCall
    /\ opened.rpc = "StreamChainEvents"
    /\ EventIdStartValue \notin eventIds
    /\ Len(sent) >= 2
    /\ sent[1] = SetMin(eventIds)
    /\ sent[1] > EventIdStartValue

\* a stream opened at a height whose first event is not the first of the log has
\* delivered that event
StartedAtHeight ==
    /\ HeightCall
    /\ opened.rpc = "StreamChainEvents"
    /\ EventIdStartValue \in opened.ids
    /\ sent # <<>>
    /\ sent[1] = SetMin(AtHeight(opened.ids, ParseUint(opened.position).val))
    /\ sent[1] > EventIdStartValue

\* a stream opened with EARLIEST on an index that holds the event with id
\* EventIdStartValue has delivered it first
StartedAtFirstId ==
    /\ EarliestCall
    /\ opened.rpc = "StreamChainEvents"
    /\ sent # <<>>
    /\ sent[1] = EventIdStartValue

RejectedCall ==
    /\ opened.rpc # ""
    /\ opened.eventTag > LatestEventTag

\* C19: a StreamChainEvents or GetChainEvents call whose event tag is greater than
\* latestEventTag ends with INVALID_ARGUMENT and has called none of GetMaxEventId,
\* GetFirstEventIdByBlockHeight and GetEventsAfterEventId, and no event is sent,
\* whatever its cursor fields.
C19_UnsupportedTagRejectedFirst ==
    RejectedCall =>
        /\ CallEnded
        /\ CallStatus.grpc = "InvalidArgument"
        /\ opened.calls = <<>>
        /\ ~polled
        /\ Received = <<>>

\* a request that would read the index under a supported tag was rejected for its tag
C19_Witness ==
    /\ RejectedCall
    /\ ~opened.legacy
    /\ opened.position = InitialPositionLatest
    /\ opened.ids # {}
    /\ opened.rpc = "StreamChainEvents"
    /\ pc = "done"

(***************************************************************************)
(* Properties of the validation of a range.                                *)
(***************************************************************************)
\* a range request with a supported tag has arrived
RangeAsked == rangePc # "idle" /\ validateTag(GetEffectiveBlockTag(rangeReq.tag)).nil

\* endHeight as the claim reads it: 0 stands for startHeight + 1
StatedEndHeight ==
    IF rangeReq.endHeight = 0 THEN rangeReq.startHeight + 1 ELSE rangeReq.endHeight

StatedInvalid ==
    \/ rangeReq.startHeight >= StatedEndHeight
    \/ StatedEndHeight - rangeReq.startHeight > MaxNumBlocksOf(rangeReq.method)

\* C20: an endHeight of 0 is treated as startHeight + 1, a range of one block, for every
\* startHeight; after that the request is rejected with INVALID_ARGUMENT without a read
\* of the metadata index when startHeight >= endHeight or endHeight - startHeight >
\* maxBlocks, and otherwise the index is read for exactly [startHeight, endHeight).
C20_RangeValidation ==
    RangeAsked =>
        IF StatedInvalid
           THEN /\ rangePc = "done"
                /\ RangeStatus.grpc = "InvalidArgument"
                /\ indexReads = {}
           ELSE /\ rangePc = "fetch" => indexReads = {}
                /\ rangePc # "fetch" =>
                        indexReads = {<<rangeReq.startHeight, StatedEndHeight>>}

\* the range of one block at the greatest height was rejected and the index not read
C20_Witness ==
    /\ RangeAsked
    /\ rangeReq.startHeight = MaxHeight
    /\ rangeReq.endHeight = 0
    /\ rangePc = "done"
    /\ RangeStatus.grpc = "InvalidArgument"
    /\ indexReads = {}

\* every other range request is validated and read as stated
C20_HoldsBelowTheGreatestHeight ==
    (rangeReq.startHeight = MaxHeight /\ rangeReq.endHeight = 0) \/ C20_RangeValidation

(***************************************************************************)
(* Properties of the handlers behind a feature flag.                       *)
(***************************************************************************)
\* the flag of the handler that ran is off
GatedOff ==
    \/ /\ fnName \in {"GetBlockByTransaction", "GetNativeTransaction"}
       /\ ~fnInput.transactionIndexing
    \/ /\ fnName = "GetVerifiedAccountState"
       /\ ~fnInput.verifiedAccountStateEnabled

\* C21: while TransactionIndexing is off, GetBlockByTransaction and GetNativeTransaction
\* return UNIMPLEMENTED without a call of transaction storage, the metadata index or
\* blob storage and without a served-items metric; so does GetVerifiedAccountState
\* while VerifiedAccountStateEnabled is off.
C21_DisabledFeatureIsUnimplemented ==
    GatedOff =>
        /\ fnOutput.status.grpc = "Unimplemented"
        /\ fnOutput.reads = <<>>
        /\ ~fnOutput.served

\* GetNativeTransaction was refused although the other flag is on
C21_Witness ==
    /\ fnName = "GetNativeTransaction"
    /\ ~fnInput.transactionIndexing
    /\ fnInput.verifiedAccountStateEnabled
    /\ fnOutput.status.grpc = "Unimplemented"

(***************************************************************************)
(* Properties of GetVersionedChainEvent.                                   *)
(***************************************************************************)
VersionedFields == {"blockHash", "parentHash", "eventType", "blockSkipped", "tag"}

\* the events of the requested height that agree with the source event on the five
\* fields, when both lookups of the call on record succeeded
Agreeing ==
    {i \in 1..Len(fnInput.to.val) :
        \A f \in VersionedFields : fnInput.to.val[i][f] = fnInput.from.val[f]}

VersionedLookedUp ==
    /\ fnName = "GetVersionedChainEvent"
    /\ fnInput.fromSequence = <<>> \/ decodeSequenceToEventId(fnInput.fromSequence).ok
    /\ fnInput.from.err.nil
    /\ fnInput.to.err.nil

\* C22: among the events of toEventTag at the height of the source event,
\* GetVersionedChainEvent returns the one with the greatest eventId of those that agree
\* with the source event on blockHash, parentHash, eventType, blockSkipped and tag; an
\* event that differs in one of them is never returned; when none agrees the call
\* returns an error and no event.
C22_VersionedEventIsLatestMatch ==
    /\ VersionedLookedUp =>
        IF Agreeing = {}
           THEN ~fnOutput.err.nil /\ fnOutput.event = NoBlockchainEvent
           ELSE /\ fnOutput.err.nil
                /\ \E i \in Agreeing :
                    /\ fnOutput.event.sequenceNum = fnInput.to.val[i].eventId
                    /\ \A j \in Agreeing :
                          fnInput.to.val[j].eventId <= fnInput.to.val[i].eventId
                    /\ fnOutput.event.hash = fnInput.from.val.blockHash
                    /\ fnOutput.event.type = fnInput.from.val.eventType
                    /\ fnOutput.event.skipped = fnInput.from.val.blockSkipped
                    /\ fnOutput.event.tag = fnInput.from.val.tag
    /\ (fnName = "GetVersionedChainEvent" /\ ~VersionedLookedUp) =>
            ~fnOutput.err.nil /\ fnOutput.event = NoBlockchainEvent

\* +h3, -h3, +h3: the second +h3 was returned
C22_Witness ==
    /\ VersionedLookedUp
    /\ Len(fnInput.to.val) = 3
    /\ Agreeing = {1, 3}
    /\ fnInput.to.val[2].eventType = BLOCK_REMOVED
    /\ fnInput.to.val[1].eventId < fnInput.to.val[3].eventId
    /\ fnOutput.event # NoBlockchainEvent
    /\ fnOutput.event.sequenceNum = fnInput.to.val[3].eventId

(***************************************************************************)
(* GetChainEvents against the stream.                                      *)
(***************************************************************************)
\* a stream is on record and the event log is the one it was opened on
StreamOnFixedLog == opened.rpc = "StreamChainEvents" /\ eventIds = opened.ids

\* the stream has delivered all it delivers from this log: its next poll is empty
Exhausted ==
    /\ Active
    /\ events = <<>>
    /\ GetEventsAfterEventId(eventIds, lastSentEventId, 1) = <<>>

\* the number of events MaxNumEvents = n asks for
Asked(n) == IF n = 0 THEN 1 ELSE n

\* C23: for a fixed event log and the same cursor fields and event tag, GetChainEvents
\* with MaxNumEvents = n returns the first n events the stream delivers from that
\* cursor (all of them when fewer exist), in the same order and with the same Sequence
\* and SequenceNum, n = 0 standing for 1; and it is rejected when the stream is.
C23_PullIsPrefixOfStream ==
    StreamOnFixedLog =>
        \A n \in MaxNumEventsValues : \A o \in pulls[n] :
            /\ ~o.polled <=> (pc = "done" /\ exit = "parse-error")
            /\ ~o.polled => (o.err = ret /\ o.events = <<>>)
            /\ o.err.nil =>
                /\ Len(o.events) <= Asked(n)
                /\ \A i \in 1..Len(o.events) :
                      i <= Len(sent) =>
                          /\ BlockchainEvent(EventEntry(o.events[i])).sequenceNum
                                = BlockchainEvent(EventEntry(sent[i])).sequenceNum
                          /\ BlockchainEvent(EventEntry(o.events[i])).sequence
                                = BlockchainEvent(EventEntry(sent[i])).sequence
                /\ Len(sent) >= Asked(n) => Len(o.events) = Asked(n)
                /\ Exhausted => o.events = Prefix(sent, Asked(n))

\* the stream delivered more than one batch, and GetChainEvents returns all of it at once
C23_Witness ==
    /\ StreamOnFixedLog
    /\ Exhausted
    /\ Len(sent) = StreamingBatchSize + 1
    /\ \E o \in pulls[StreamingBatchSize + 1] : o.err.nil /\ o.events = sent

(***************************************************************************)
(* Properties of the cursors on the wire.                                  *)
(***************************************************************************)
\* the event the call on record put on the wire, if any
EmittedEvents ==
    IF fnName = "encodeEventIdToSequence" THEN {fnOutput.event}
    ELSE IF fnName = "GetVersionedChainEvent" /\ fnOutput.event # NoBlockchainEvent
        THEN {fnOutput.event}
    ELSE {}

\* C24: decodeSequenceToEventId(encodeEventIdToSequence(id)) returns id without error
\* for every eventId >= 0, and in every event the server emits the Sequence decodes to
\* the SequenceNum of that event.
C24_CursorRoundTrip ==
    /\ fnName = "encodeEventIdToSequence" =>
          /\ fnOutput.decoded.ok
          /\ fnOutput.decoded.val = fnInput
    /\ \A e \in EmittedEvents :
          /\ decodeSequenceToEventId(e.sequence).ok
          /\ decodeSequenceToEventId(e.sequence).val = e.sequenceNum

\* an id of three digits made the round trip
C24_Witness ==
    /\ fnName = "encodeEventIdToSequence"
    /\ fnInput = 107
    /\ fnOutput.sequence = <<"1", "0", "7">>
    /\ fnOutput.decoded.val = 107
    /\ fnOutput.event.sequenceNum = 107

(***************************************************************************)
(* Properties of the priority of the cursor fields.                        *)
(***************************************************************************)
\* GetChainEvents was called with a supported event tag
Pulled == fnName = "GetChainEvents" /\ fnInput.eventTag <= LatestEventTag

\* the call starts after the given id: it returns the events after it, the first one
\* first, unless the read of the events failed
StartsAfter(id) ==
    /\ fnOutput.parsed.err.nil
    /\ fnOutput.parsed.val = id
    /\ fnOutput.err.nil =>
        LET later == {i \in fnInput.later : i > id}
        IN  IF later = {} THEN fnOutput.events = <<>>
            ELSE /\ fnOutput.events # <<>>
                 /\ fnOutput.events[1] = SetMin(later)

\* the request of the call with the fields f set to what an absent field holds
Without(fields) ==
    [f \in {"sequence", "initialPositionInStream", "sequenceNum"} |->
        IF f \in fields
           THEN (IF f = "sequenceNum" THEN 0 ELSE <<>>)
           ELSE fnInput.req[f]]

ParsedWithout(fields) ==
    parseChainEventsRequest(fnInput.ids, Without(fields), fnInput.eventTag)

\* C25: the cursor comes from the legacy sequence whenever it is not empty,
\* initialPositionInStream and sequenceNum being ignored and an undecodable sequence
\* giving INVALID_ARGUMENT; else from initialPositionInStream whenever it is not empty,
\* sequenceNum being ignored; else from sequenceNum.  From a sequence or a sequenceNum
\* the delivery starts with the first event whose id is greater than the given id; with
\* all three fields absent it starts after event id 0.
C25_CursorPriority ==
    Pulled =>
        IF fnInput.req.sequence # <<>>
           THEN /\ fnOutput.parsed = ParsedWithout({"initialPositionInStream", "sequenceNum"})
                /\ IF decodeSequenceToEventId(fnInput.req.sequence).ok
                      THEN StartsAfter(decodeSequenceToEventId(fnInput.req.sequence).val)
                      ELSE /\ fnOutput.status.grpc = "InvalidArgument"
                           /\ fnOutput.events = <<>>
        ELSE IF fnInput.req.initialPositionInStream # <<>>
           THEN fnOutput.parsed = ParsedWithout({"sequenceNum"})
        ELSE StartsAfter(fnInput.req.sequenceNum)

\* a request with all three fields set started after the id of its sequence
C25_Witness ==
    /\ Pulled
    /\ fnInput.req.sequence = <<"2">>
    /\ fnInput.req.initialPositionInStream = InitialPositionEarliest
    /\ fnInput.req.sequenceNum = 1
    /\ fnInput.ids = 1..MaxEventId
    /\ fnOutput.err.nil
    /\ fnOutput.events[1] = 3
(***************************************************************************)
(* Properties of the end of a stream.                                      *)
(***************************************************************************)
\* the call on record has returned
Ended == pc = "done"

\* a step that opens a new call: nothing is sent yet, and the call is either in its
\* first poll or rejected for its request
OpensCall ==
    /\ sent' = <<>>
    /\ events' = <<>>
    /\ pc' = "poll" \/ (pc' = "done" /\ exit' = "parse-error")

\* the five outcomes of the state machine, each with what the client is told
StatedOutcome ==
    \/ exit \in {"client-gone", "ctx-cancel"} /\ ret.nil
    \/ exit \in {"shutdown", "idle-timeout"} /\ Aborted(ClientStatus)
    \/ exit = "parse-error" /\ ~ClientStatus.nil

\* the two other returns of the loop: the read of the index failed (line 1125), Send
\* failed with a code other than Unavailable (line 1162)
FailedOutcome ==
    /\ exit \in {"poll-error", "send-error"}
    /\ ~ClientStatus.nil
    /\ ~Aborted(ClientStatus)

\* once the call has returned, nothing is read from the index and nothing is sent
\* until a new call is opened
NothingAfterReturn ==
    Ended =>
        /\ ~PollIndex
        /\ ~SendEvent
        /\ \/ UNCHANGED <<pc, ret, exit, sent, delivered, lastSentEventId, events>>
           \/ OpensCall

\* C26 as stated: a call that has returned ended in one of the five outcomes client-gone
\* (nil), ctx-cancel (nil), shutdown (ABORTED), idle-timeout (ABORTED) or parse-error
C26_FiveTerminalOutcomes == Ended => StatedOutcome

\* C26: a call that has returned ended in exactly one of seven outcomes: client-gone
\* and ctx-cancel with no error, shutdown and idle-timeout with ABORTED, parse-error, or
\* the error of a failed read of the index or of a failed Send with a code other than
\* Unavailable; after it returned, no further poll is made and no further event is sent.
C26_TerminalOutcomes ==
    [][/\ Ended' => (StatedOutcome \/ FailedOutcome)'
       /\ NothingAfterReturn]_vars

\* a call ended on a failed Send after it had sent events
C26_Witness == Ended /\ exit = "send-error" /\ sent # <<>> /\ ClientStatus.grpc = "Internal"

\* the id of the last event whose Send succeeded, the cursor of the request before any
LastSucceeded == IF sent = <<>> THEN startCursor ELSE sent[Len(sent)]

\* the call on record returned because Send reported the transport unavailable
ClientGone == Ended /\ exit = "client-gone"

\* C27: when Send fails with Unavailable on an event of a batch the call returns at
\* once with no error; the failed event and the rest of the batch are not sent, the
\* cursor stays the id of the last event whose Send succeeded, and no further poll is
\* made.
C27_ClientGoneReturnsCleanly ==
    [][/\ (pc = "send" /\ ClientGone') =>
            /\ ret'.nil
            /\ ClientStatus'.nil
            /\ sent' = sent
            /\ delivered' = delivered
            /\ events' = events
            /\ lastSentEventId' = lastSentEventId
       /\ ClientGone' =>
            /\ events' # <<>>
            /\ \A i \in 1..Len(events') :
                  /\ events'[i] > lastSentEventId'
                  /\ \A j \in 1..Len(sent') : sent'[j] # events'[i]
            /\ lastSentEventId' = LastSucceeded'
       /\ ClientGone =>
            /\ ~PollIndex
            /\ ~SendEvent
            /\ UNCHANGED <<sent, delivered, lastSentEventId>> \/ OpensCall]_vars

\* Send failed on the first event of the second batch of a call: the two events of the
\* batch stay unsent and the cursor is the event of the first batch
C27_Witness ==
    /\ ClientGone
    /\ sent = <<1>>
    /\ events = <<2, 3>>
    /\ lastSentEventId = 1
    /\ ret.nil

\* what the index holds after the cursor of the call
Pending == GetEventsAfterEventId(eventIds, PollCursor(lastSentEventId), StreamingBatchSize)

\* a step of the call that polls the index
PollStep == pc = "poll" /\ pc' # "poll"

\* C28: a poll that returns events resets the backoff and does not end the call with
\* the idle-timeout error; the elapsed time of the backoff is set back by such a poll
\* and by nothing else during a call, so the idle-timeout error is returned only by an
\* empty poll made more than StreamingMaxNoEventTime after the last poll that returned
\* events (or after the start of the call, when none did).
C28_EventsResetIdleBackoff ==
    [][/\ (PollStep /\ pc' = "send") =>
            /\ Pending # <<>>
            /\ events' = Pending
            /\ elapsedTime' = 0
       /\ (PollStep /\ Pending # <<>>) =>
            /\ pc' = "send" \/ (Ended' /\ exit' = "poll-error")
            /\ ~(Ended' /\ exit' = "idle-timeout")
       /\ (Active /\ Ended' /\ exit' = "idle-timeout") =>
            /\ PollStep
            /\ Pending = <<>>
            /\ elapsedTime > StreamingMaxNoEventTime
       /\ (Active /\ elapsedTime' # elapsedTime) =>
            \/ elapsedTime' = elapsedTime + 1 /\ UNCHANGED <<pc, events, sent>>
            \/ elapsedTime' = 0 /\ PollStep /\ pc' = "send"
            \/ elapsedTime' = 0 /\ OpensCall]_vars

\* the second poll of a call returned events: the backoff is reset and the call goes
\* on to send them
C28_Witness ==
    /\ pc = "send"
    /\ sent = <<1>>
    /\ events = <<2, 3>>
    /\ elapsedTime = 0
    /\ exit = ""

(***************************************************************************)
(* Properties of the shutdown signal.                                      *)
(***************************************************************************)
\* C29 as stated: streamDone is open after NewServer, only onStop closes it, it is never
\* reopened, and no call of onStop closes it a second time: whatever hooks are called,
\* close(s.streamDone) does not run on the closed channel.
C29_StreamDoneClosedOnce ==
    [][/\ streamDone => streamDone'
       /\ (~streamDone /\ streamDone') => onStop
       /\ ~closePanic']_vars

\* the parts of C29 that hold: the signal is open until the first onStop and stays
\* closed from then on
C29_OpenUntilStoppedThenClosed ==
    [][/\ streamDone => streamDone'
       /\ (~streamDone /\ streamDone') => onStop
       /\ (~streamDone /\ onStop) => (streamDone' /\ ~closePanic')]_vars

\* a call opened after the first onStop left by the streamDone case of its select
C29_Witness ==
    /\ streamDone
    /\ ~closePanic
    /\ ~activeAtStop
    /\ Ended
    /\ exit = "shutdown"
    /\ Aborted(ClientStatus)

(***************************************************************************)
(* Properties of the two interceptor chains.                               *)
(***************************************************************************)
ChainsApplied == fnName = "interceptors"

\* C30: for the same full method, client id header, buckets of the throttler and
\* handler outcome, the unary chain and the stream chain ask the throttler for the
\* same client with the same weight and get the same answer, call the handler or not
\* alike, return the same status to the client and increment the request counter and
\* the error counter with the same tags.
C30_SameInterceptorPolicy ==
    ChainsApplied =>
        LET unary == fnOutput.unary
            stream == fnOutput.stream
        IN  /\ unary.asked = stream.asked
            /\ unary.client = stream.client
            /\ unary.rcu = stream.rcu
            /\ unary.allowed = stream.allowed
            /\ unary.invoked = stream.invoked
            /\ unary.buckets = stream.buckets
            /\ unary.err = stream.err
            /\ StatusCode(unary.err) = StatusCode(stream.err)
            /\ unary.requestCounter = stream.requestCounter
            /\ unary.errorCounter = stream.errorCounter

\* both chains rejected a request of the client "my" for a method of weight 50 and
\* counted it as ResourceExhausted
C30_Witness ==
    /\ ChainsApplied
    /\ fnInput.fullMethod = FullMethod(FullServiceName, "GetRawBlocksByRange")
    /\ fnOutput.stream.client = <<"m", "y">>
    /\ fnOutput.stream.asked
    /\ fnOutput.stream.rcu = 50
    /\ ~fnOutput.stream.allowed
    /\ ~fnOutput.stream.invoked
    /\ fnOutput.stream.buckets = fnInput.buckets
    /\ fnOutput.stream.requestCounter.status = "ResourceExhausted"
    /\ fnOutput.stream.requestCounter.clientID = <<"m", "y">>
    /\ fnOutput.stream.errorCounter =
          {[method |-> "GetRawBlocksByRange", status |-> "ResourceExhausted"]}
    /\ fnOutput.unary = fnOutput.stream

(***************************************************************************)
(* Properties of the order of the blocks of a transaction.                 *)
(***************************************************************************)
\* the place in the result of the record i that passed the filter: after the entries
\* of the records before it that passed
PlaceOf(i) == Cardinality({j \in MatchingRecords : j <= i})

\* C31: the result of getBlocksFromTransactionStorage is the list of the records, in
\* their original order, restricted to those whose blockHash is the canonical hash
\* read at their height, each mapped to that canonical block: one entry per such
\* record, also when two of them are at the same height.
C31_ResultsInRecordOrder ==
    (txPc = "done" /\ txErr.nil) =>
        /\ Len(results) = Cardinality(MatchingRecords)
        /\ \A i \in MatchingRecords :
              results[PlaceOf(i)] = [height |-> txs[i].blockNumber,
                                     hash   |-> canonicalRead[txs[i].blockNumber]]

\* two records of the same block at one height give two entries for that block
C31_Witness ==
    /\ txPc = "done"
    /\ txErr.nil
    /\ Len(txs) = 2
    /\ txs[1] = txs[2]
    /\ MatchingRecords = {1, 2}
    /\ Len(results) = 2
    /\ results[1] = results[2]
    /\ results[1].height = txs[1].blockNumber

\* records at a greater height first: the result keeps the order of the records
C31_OrderWitness ==
    /\ txPc = "done"
    /\ txErr.nil
    /\ Len(txs) = 2
    /\ txs[1].blockNumber > txs[2].blockNumber
    /\ Len(results) = 2
    /\ results[1].height > results[2].height

(***************************************************************************)
(* Properties of the events_served metric.                                 *)
(***************************************************************************)
\* the events of the call whose Send succeeded and whose type the metric counts
CountedSends ==
    {i \in 1..Len(sent) : EventEntry(sent[i]).eventType \in {BLOCK_ADDED, BLOCK_REMOVED}}

\* the value of the event_type tag for an event
EventTypeTag(e) == IF e.eventType = BLOCK_ADDED THEN "block_added" ELSE "block_removed"

\* C32: at every point of a StreamChainEvents call events_served has been incremented
\* once for each BLOCK_ADDED or BLOCK_REMOVED event whose Send succeeded, in the order
\* they were sent, with the type of the event, the client id of the call and the event
\* tag of the event as tags, and not for an event whose Send failed or was not made.
C32_EventsServedPerDeliveredEvent ==
    /\ Len(eventsServed) = Cardinality(CountedSends)
    /\ CountedSends = 1..Len(sent)
    /\ \A i \in 1..Len(eventsServed) :
          eventsServed[i] = [event_type |-> EventTypeTag(EventEntry(sent[i])),
                             clientID   |-> streamClientID,
                             event_tag  |-> FormatNat(EventEntry(sent[i]).eventTag),
                             count      |-> 1]

\* a call of alice sent two events and the Send of the third, a BLOCK_REMOVED, failed:
\* two increments, none for the third
C32_Witness ==
    /\ streamClientID = "alice"
    /\ pc = "done"
    /\ exit = "send-error"
    /\ sent = <<1, 2>>
    /\ events = <<3>>
    /\ Len(eventsServed) = 2
    /\ eventsServed[2].event_type = "block_added"

\* a BLOCK_REMOVED event was sent and counted as block_removed
C32_RemovedWitness ==
    /\ Len(sent) = 3
    /\ eventsServed[3] = [event_type |-> "block_removed", clientID |-> streamClientID,
                          event_tag |-> FormatNat(LatestEventTag), count |-> 1]

(***************************************************************************)
(* Properties of the request counter.                                      *)
(***************************************************************************)
\* the RPC went through the chain of its kind; what that chain did
ChainOutputs == {fnOutput.unary, fnOutput.stream}

\* the increments of the request counter among the increments of an RPC
RequestIncrements(out) ==
    {i \in 1..Len(out.increments) : out.increments[i].counter = "request"}

\* the client id of the request: the sanitized value of its header, "unknown" without
SanitizedClientID ==
    IF fnInput.md /\ fnInput.values # <<>>
       THEN sanitizeClientID(fnInput.values[1])
       ELSE unknownClientID

\* C33: every RPC, unary or stream, throttled, failed or successful, increments the
\* request counter exactly once, as the last increment of the chain, with the status
\* code of the error returned to the client after error mapping (OK for none) and the
\* sanitized client id as tags; a throttled request is counted as ResourceExhausted.
C33_RequestCountedOnceWithFinalStatus ==
    ChainsApplied =>
        \A out \in ChainOutputs :
            /\ RequestIncrements(out) = {Len(out.increments)}
            /\ out.increments[Len(out.increments)].tags = out.requestCounter
            /\ out.requestCounter.status = StatusCode(out.err)
            /\ out.err.nil <=> out.requestCounter.status = "OK"
            /\ out.requestCounter.clientID = SanitizedClientID
            /\ out.requestCounter.service = getServiceAndMethod(fnInput.fullMethod).service
            /\ out.requestCounter.method = getServiceAndMethod(fnInput.fullMethod).method
            /\ (out.asked /\ ~out.allowed) =>
                  /\ ~out.invoked
                  /\ out.requestCounter.status = "ResourceExhausted"
            /\ (out.invoked /\ out.requestCounter.service # FullServiceName) =>
                  out.requestCounter.status = StatusCode(fnInput.handlerErr)
            /\ (out.invoked /\ out.requestCounter.service = FullServiceName) =>
                  out.requestCounter.status =
                      (IF fnInput.handlerErr.nil THEN "OK"
                       ELSE MappedCode(fnInput.handlerErr).code)

\* a handler error of a unary RPC was counted, after the error counter, with the code
\* the mapper gave it and the client id of the header
C33_Witness ==
    /\ ChainsApplied
    /\ fnInput.fullMethod = FullMethod(FullServiceName, "GetRawBlock")
    /\ fnInput.handlerErr = KindErr("ErrItemNotFound")
    /\ fnInput.md
    /\ fnInput.values = <<(<<"M", "y">>)>>
    /\ fnOutput.unary.invoked
    /\ Len(fnOutput.unary.increments) = 2
    /\ fnOutput.unary.increments[1].counter = "error"
    /\ fnOutput.unary.increments[2] =
          [counter |-> "request",
           tags    |-> [service |-> FullServiceName, method |-> "GetRawBlock",
                        clientID |-> <<"m", "y">>, status |-> "NotFound"]]

(***************************************************************************)
(* Properties of the errors that carry an RPC status.                      *)
(***************************************************************************)
Mapped == fnName = "mapToGrpcError"

\* C34: an error that carries an RPC status leaves mapToGrpcError with the code of
\* that status, whatever kinds of the table it also wraps: ResourceExhausted of the
\* throttler, InvalidArgument of the validation of the tag, the range and the cursor,
\* FailedPrecondition of the watermark check; and mapping the mapped error once more
\* gives the same code.
C34_StatusCodeCarriedThrough ==
    Mapped =>
        /\ fnInput.err.grpc # "" => StatusCode(fnOutput.err) = fnInput.err.grpc
        /\ StatusCode(fnOutput.again) = StatusCode(fnOutput.err)
        /\ fnInput.err = errRateLimitExceeded =>
              StatusCode(fnOutput.err) = "ResourceExhausted"
        /\ fnInput.err = CheckWatermark(2, 0) =>
              StatusCode(fnOutput.err) = "FailedPrecondition"
        /\ fnInput.err \in PreClassifiedErrors \ {errRateLimitExceeded, CheckWatermark(2, 0)} =>
              StatusCode(fnOutput.err) = "InvalidArgument"

\* a ResourceExhausted status that wraps ErrItemNotFound stayed ResourceExhausted
C34_Witness ==
    /\ Mapped
    /\ fnInput.service = FullServiceName
    /\ fnInput.err = Err("ResourceExhausted", {"ErrItemNotFound"}, "")
    /\ StatusCode(fnOutput.err) = "ResourceExhausted"
    /\ StatusCode(fnOutput.again) = "ResourceExhausted"
=============================================================================
